---- MODULE Spec2Model ----
(***************************************************************************)
(* Model of the dataflow compute engine of PicoIDE:                        *)
(*   - Block / Option            (src/app/flow/block.py)                   *)
(*   - ComputeEngine.set_schema  (src/app/flow/engine.py)                  *)
(*   - EngineManager and scopes  (src/app/flow/manager.py)                 *)
(*   - counter-based scheduler   (src/app/flow/compute/engine.py)          *)
(*   - singleton decorator       (src/app/utils/singleton.py)              *)
(*   - OutputFileManager         (src/app/node/output_manager.py)          *)
(* SpecCompile checks the compiler on bounded schemas, SpecCoop the        *)
(* manager driven by cooperative callers of one event loop, SpecMgr the    *)
(* manager driven by cooperative callers and worker threads together.      *)
(***************************************************************************)
EXTENDS Integers, Sequences, FiniteSets, TLC

VARIABLES
    \* ---- compiler (one ComputeEngine and the schema handed to it)
    schema,          \* the schema document passed to set_schema
    engine,          \* the ComputeEngine object: heap of Block objects, maps, plan
    cstate,          \* "new" | "registered" | "compiled" | "failed"
    cerror,          \* the error set_schema raised ("" when none)
    rstate,          \* "idle" | "returned": ComputeEngine.run on the engine
    rfailed,         \* instance ids whose on_compute raised in that run
    \* ---- EngineManager (manager.py) and its callers
    libraries,       \* _block_libraries: business id -> the blocks registered
    blueprints,      \* _blueprints: LRU order (least recent first) of [key, bp]
    pools,           \* _instance_pools: key -> deque of engine objects
    lock,            \* _lock (threading.Lock): its holder or "free"
    async_lock,      \* _async_lock (asyncio.Lock): its holder or "free"
    objs,            \* the live ComputeEngine objects: id -> [key, eng]
    pc,              \* where each caller is in acquire / enter / run / exit
    req,             \* the <<business_id, schema>> of the caller's request
    held,            \* scope.engine: the engine object of the caller's scope
    bp,              \* the local bp of _create_blueprint_internal
    from_pool,       \* whether _get_instance took the pool branch
    outcome,         \* how the caller's request ended ("" while running)
    rounds,          \* requests the caller has started
    running,         \* the coroutine the event loop is executing, or "none"
    compiles,        \* key -> blueprints stored by _create_blueprint_internal
    evictions,       \* key -> blueprints the LRU dropped
    \* ---- one async_run of the engine (engine.py lines 117-165)
    astate,          \* async_run: "idle", "running", "returned", "cancelled"
    tasks,           \* instance id -> where its execute_node task is
    done_events,     \* done_events: instance id -> whether the Event is set
    araising,        \* instance ids whose async_on_compute raises in this run
    before,          \* the engine as it was when async_run was called
    \* ---- one Block whose option is set (block.py lines 129-138)
    oblk,            \* the Block object
    oset,            \* the arguments of the last set_option call, <<>> before it
    \* ---- one _get_hash call (manager.py lines 35-38)
    hargs,           \* <<business_id, schema document>>
    hkey,            \* <<the key returned>>, <<>> before the call
    \* ---- the counter-based scheduler (flow/compute/engine.py lines 57-229)
    sgraph,          \* nodes, adjacency and initial_in_degree after _build_graph
    sfail,           \* the nodes whose compute raises in this run
    smain,           \* run(): "idle", "waiting", "shutdown", "returned"
    in_degree,       \* ctx['in_degree']
    finished_count,  \* ctx['finished_count']
    done_event,      \* ctx['done_event'] is set
    failed,          \* ctx['failed']
    sync_lock,       \* _sync_lock: the node whose task holds it, or 0
    task,            \* node -> [pc, todo, cur] of its _sync_execute_task
    submitted,       \* node -> number of executor.submit calls for it
    executed,        \* node -> number of times its task computed
    \* ---- the singleton decorator (utils/singleton.py) around one class
    single,          \* instances[cls]: the stored instance, 0 when absent
    single_lock,     \* lock: the thread that holds it, or "free"
    gpc,             \* thread -> where it is in get_instance
    gnew,            \* thread -> the object its cls(...) call returned
    gret,            \* thread -> the instances its calls returned
    constructed,     \* number of times the constructor has run
    \* ---- additions to the components above
    rcalls,          \* the instance ids whose on_compute that run called, in order
    maxsize,         \* _blueprints.maxsize (blueprint_size of __init__)
    scope,           \* the scope around the async_run: "none", "entered", ...
    \* ---- OutputFileManager (node/output_manager.py) and its threads
    files,           \* _files: file id -> "new" | "old" (older than the limit)
    file_lock,       \* _lock (threading.Lock): the thread that holds it, or "free"
    fpc,             \* thread -> where it is in its call
    floc             \* thread -> the locals of its call

cvars == <<schema, engine, cstate, cerror, rstate, rfailed>>
mvars == <<libraries, blueprints, pools, lock, async_lock, objs, pc, req, held,
           bp, from_pool, outcome, rounds, running, compiles, evictions>>
avars == <<astate, tasks, done_events, araising, before>>
ovars == <<oblk, oset>>
hvars == <<hargs, hkey>>
svars == <<sgraph, sfail, smain, in_degree, finished_count, done_event, failed,
           sync_lock, task, submitted, executed>>
gvars == <<single, single_lock, gpc, gnew, gret, constructed>>
nvars == <<ovars, hvars, svars, gvars>>
fvars == <<files, file_lock, fpc, floc>>
yvars == <<rcalls, maxsize, scope, fvars>>
xvars == <<nvars, yvars>>
vars == <<schema, engine, cstate, cerror, rstate, rfailed,
          libraries, blueprints, pools, lock, async_lock, objs, pc, req, held,
          bp, from_pool, outcome, rounds, running, compiles, evictions,
          astate, tasks, done_events, araising, before,
          oblk, oset, hargs, hkey,
          sgraph, sfail, smain, in_degree, finished_count, done_event, failed,
          sync_lock, task, submitted, executed,
          single, single_lock, gpc, gnew, gret, constructed,
          rcalls, maxsize, scope, files, file_lock, fpc, floc>>

----------------------------------------------------------------------------
\* Bounds of the compiler model.
MaxSchemaSize == 4     \* nodes + connections of a schema document
\* Bound of the executor model.
MaxExecSize == 4       \* nodes + connections of the schema an engine executes
\* Bounds of the manager model.
PoolMax == 1           \* pool_size of EngineManager.__init__
BlueprintSize == 1     \* blueprint_size of EngineManager.__init__
MaxRequests == 3         \* requests made in one behaviour
\* Bound of the option model.
MaxOptionValue == 3    \* option limits are in 0..MaxOptionValue
\* Bound of the cache-key model.
MaxArrayLen == 1       \* entries of a JSON array of a hashed document
\* Bounds of the scheduler model.
MaxSchedNodes == 3     \* nodes of the graph the scheduler runs
MaxSchedConns == 2     \* connections of that graph
MaxWorkers == 2        \* max_workers of the ThreadPoolExecutor
\* Bound of the singleton model.
MaxCalls == 2          \* calls of the decorated class by one thread

Null == <<>>           \* Python None as a port value
NoneV == <<>>          \* Python None for an option's min / max

Max(a, b) == IF a >= b THEN a ELSE b
Min(a, b) == IF a <= b THEN a ELSE b

RECURSIVE SeqFold(_, _, _)
\* left fold of a sequence: the source's for-loops
SeqFold(Op(_, _), acc, s) ==
    IF s = <<>> THEN acc ELSE SeqFold(Op, Op(acc, Head(s)), Tail(s))

----------------------------------------------------------------------------
\* Block and Option (block.py)

Option(name, opt_type, value, min_val, max_val) ==
    [name |-> name, type |-> opt_type, value |-> value,
     min |-> min_val, max |-> max_val]

\* Block.__init__ followed by add_input / add_output / add_integer_option
Block(name, input_names, output_names, options) ==
    [name |-> name,
     instance_id |-> 0,
     _inputs |-> [p \in input_names |-> Null],
     _outputs |-> [p \in output_names |-> Null],
     _options |-> options]

NumericTypes == {"Integer", "Number", "Slider"}

\* Block.set_option: numeric kinds clamp to [min, max], a name that is no
\* option is ignored
ClampToMinOnly(blk, name, value) ==
    IF name \in DOMAIN blk._options
    THEN LET opt == blk._options[name]
             v1 == IF opt.type \in NumericTypes /\ opt.min # NoneV
                   THEN Max(opt.min[1], value) ELSE value
         IN [blk EXCEPT !._options[name].value = v1]
    ELSE blk
set_option(blk, name, value) ==
    IF name \in DOMAIN blk._options
    THEN LET opt == blk._options[name]
             v1 == IF opt.type \in NumericTypes /\ opt.min # NoneV
                   THEN Max(opt.min[1], value) ELSE value
             v2 == IF opt.type \in NumericTypes /\ opt.max # NoneV
                   THEN Min(opt.max[1], v1) ELSE v1
         IN [blk EXCEPT !._options[name].value = v2]
    ELSE blk

\* Block.set_option(name, None): max(opt.min, None) or min(opt.max, None)
\* raises TypeError; without limits, and for the other kinds, None is stored
NoneTypeError == "TypeError: '>' not supported between instances of 'NoneType' and 'int'"
set_option_none(blk, name) ==
    IF name \notin DOMAIN blk._options
    THEN [blk |-> blk, error |-> ""]
    ELSE LET opt == blk._options[name]
         IN IF opt.type \in NumericTypes /\ (opt.min # NoneV \/ opt.max # NoneV)
            THEN [blk |-> blk, error |-> NoneTypeError]
            ELSE [blk |-> [blk EXCEPT !._options[name].value = NoneV], error |-> ""]

----------------------------------------------------------------------------
\* ComputeEngine (engine.py).  Block objects live on the engine's heap and
\* are named by references, so that aliasing and copying are distinguishable.

TplRef(name) == <<"T", name>>
InstRef(n_id) == <<"I", n_id>>

\* The "daq" block library: the Block objects handed to register_blocks.
PairBlock ==
    Block("Pair", {"A", "B"}, {"O", "P"},
          [k |-> Option("k", "Integer", 1, <<0>>, <<5>>)])
ConstBlock ==
    Block("Const", {}, {"O"},
          [k |-> Option("k", "Integer", 1, <<0>>, <<5>>)])
Library == <<PairBlock, ConstBlock>>

\* ComputeEngine.__init__
NewEngine ==
    [heap |-> << >>,
     block_templates |-> << >>,
     instances |-> << >>,
     _compiled_sequence |-> << >>]

register_one(eng, b) ==
    [eng EXCEPT !.heap = (TplRef(b.name) :> b) @@ eng.heap,
                !.block_templates = (b.name :> TplRef(b.name)) @@ eng.block_templates]

\* ComputeEngine.register_blocks
register_blocks(eng, blocks) == SeqFold(register_one, eng, blocks)

\* copy.deepcopy(template): a new Block object, equal to the template
AliasTemplate(heap, tref, n_id) == [heap |-> heap, ref |-> tref]
DeepcopyTemplate(heap, tref, n_id) ==
    [heap |-> (InstRef(n_id) :> heap[tref]) @@ heap, ref |-> InstRef(n_id)]

\* set_schema, lines 47-52: one entry of node_data["inputs"]; an entry
\* without "value" hands info.get("value"), None, to set_option.  Once an
\* exception has been raised (st.error) the rest of the loops is not run
ApplyInput(st, entry) ==
    IF st.error # "" THEN st
    ELSE IF entry.key \in DOMAIN st.heap[st.cur]._options
    THEN IF "value" \in DOMAIN entry
         THEN [st EXCEPT !.heap[st.cur] = set_option(st.heap[st.cur], entry.key, entry.value)]
         ELSE LET r == set_option_none(st.heap[st.cur], entry.key)
              IN [st EXCEPT !.heap[st.cur] = r.blk, !.error = r.error]
    ELSE [st EXCEPT !.port_to_node = (entry.id :> <<st.cur_id, entry.key>>) @@ st.port_to_node]

\* set_schema, lines 54-55: one entry of node_data["outputs"]
ApplyOutput(st, entry) ==
    IF st.error # "" THEN st
    ELSE [st EXCEPT !.port_to_node = (entry.id :> <<st.cur_id, entry.key>>) @@ st.port_to_node]

\* set_schema, line 37: self.block_templates.get(t_name), None for a type
\* that is not registered
TemplateOrFirst(block_templates, t_name) ==
    IF t_name \in DOMAIN block_templates THEN <<block_templates[t_name]>>
    ELSE IF "Pair" \in DOMAIN block_templates THEN <<block_templates["Pair"]>>
    ELSE NoneV
templates_get(block_templates, t_name) ==
    IF t_name \in DOMAIN block_templates THEN <<block_templates[t_name]>> ELSE NoneV

\* set_schema, lines 34-55: one node of schema["nodes"]; a node without a
\* template is skipped (lines 39-40)
InstantiateNode(st, node_data) ==
    IF st.error # "" \/ templates_get(st.block_templates, node_data.type) = NoneV
    THEN st
    ELSE LET cp == DeepcopyTemplate(st.heap,
                       templates_get(st.block_templates, node_data.type)[1], node_data.id)
             st1 == [st EXCEPT
                        !.heap = [cp.heap EXCEPT ![cp.ref].instance_id = node_data.id],
                        !.instances = (node_data.id :> cp.ref) @@ st.instances,
                        !.nodes = IF \E i \in 1..Len(st.nodes) : st.nodes[i] = node_data.id
                                  THEN st.nodes ELSE Append(st.nodes, node_data.id),
                        !.cur = cp.ref,
                        !.cur_id = node_data.id]
             st2 == SeqFold(ApplyInput, st1, node_data.inputs)
         IN SeqFold(ApplyOutput, st2, node_data.outputs)

\* set_schema, lines 58-63: one connection; an edge is added when both port
\* ids are keys of port_to_node (MultiDiGraph keeps parallel edges)
DropParallelEdge(st, conn) ==
    IF conn.from \in DOMAIN st.port_to_node /\ conn.to \in DOMAIN st.port_to_node
    THEN LET src == st.port_to_node[conn.from]
             dst == st.port_to_node[conn.to]
         IN IF \E i \in 1..Len(st.edges) : st.edges[i].u = src[1] /\ st.edges[i].v = dst[1]
            THEN st
            ELSE [st EXCEPT !.edges = Append(st.edges,
                     [u |-> src[1], v |-> dst[1], out_p |-> src[2], in_p |-> dst[2]])]
    ELSE st
LoopOnDangling(st, conn) ==
    IF conn.from \in DOMAIN st.port_to_node
    THEN LET src == st.port_to_node[conn.from]
             dst == IF conn.to \in DOMAIN st.port_to_node
                    THEN st.port_to_node[conn.to] ELSE src
         IN [st EXCEPT !.edges = Append(st.edges,
                [u |-> src[1], v |-> dst[1], out_p |-> src[2], in_p |-> dst[2]])]
    ELSE st
AddConnection(st, conn) ==
    IF conn.from \in DOMAIN st.port_to_node /\ conn.to \in DOMAIN st.port_to_node
    THEN LET src == st.port_to_node[conn.from]
             dst == st.port_to_node[conn.to]
         IN [st EXCEPT !.edges = Append(st.edges,
                [u |-> src[1], v |-> dst[1], out_p |-> src[2], in_p |-> dst[2]])]
    ELSE st

\* successors of u / predecessors of v, in the order of the first edge that
\* introduced them (the adjacency dicts of the MultiDiGraph)
RECURSIVE Distinct(_)
Distinct(s) ==
    IF s = <<>> THEN <<>>
    ELSE LET rest == Distinct(SelectSeq(Tail(s), LAMBDA x : x # Head(s)))
         IN <<Head(s)>> \o rest
Successors(edges, u) ==
    Distinct([i \in 1..Len(SelectSeq(edges, LAMBDA e : e.u = u))
                  |-> SelectSeq(edges, LAMBDA e : e.u = u)[i].v])
Predecessors(edges, v) ==
    Distinct([i \in 1..Len(SelectSeq(edges, LAMBDA e : e.v = v))
                  |-> SelectSeq(edges, LAMBDA e : e.v = v)[i].u])
Multiplicity(edges, u, v) == Len(SelectSeq(edges, LAMBDA e : e.u = u /\ e.v = v))
InDegree(edges, v) == Len(SelectSeq(edges, LAMBDA e : e.v = v))

\* nx.find_cycle(temp_graph): some node reaches itself along one or more edges
RECURSIVE ReachFrom(_, _)
ReachFrom(edges, seen) ==
    LET more == seen \cup {edges[i].v : i \in {j \in 1..Len(edges) : edges[j].u \in seen}}
    IN IF more = seen THEN seen ELSE ReachFrom(edges, more)
find_cycle(edges) ==
    \E i \in 1..Len(edges) : edges[i].u \in ReachFrom(edges, {edges[i].v})

\* nx.topological_sort = the concatenated generations of
\* nx.topological_generations: a child enters the next generation when its
\* in-degree, lowered by the number of parallel edges from the node just
\* visited, reaches zero
VisitChild(edges, node, acc, child) ==
    LET d == acc.indegree_map[child] - Multiplicity(edges, node, child)
    IN [indegree_map |-> [acc.indegree_map EXCEPT ![child] = d],
        zero_indegree |-> IF d = 0 THEN Append(acc.zero_indegree, child)
                          ELSE acc.zero_indegree]
VisitNode(edges, acc, node) ==
    SeqFold(LAMBDA a, child : VisitChild(edges, node, a, child), acc,
            Successors(edges, node))

RECURSIVE topological_generations(_, _, _)
topological_generations(edges, indegree_map, zero_indegree) ==
    IF zero_indegree = <<>> THEN <<>>
    ELSE LET nxt == SeqFold(LAMBDA a, n : VisitNode(edges, a, n),
                            [indegree_map |-> indegree_map, zero_indegree |-> <<>>],
                            zero_indegree)
         IN zero_indegree \o topological_generations(edges, nxt.indegree_map, nxt.zero_indegree)

ReverseOrderSort(nodes, edges) ==
    [i \in 1..Len(nodes) |-> nodes[Len(nodes) + 1 - i]]
topological_sort(nodes, edges) ==
    topological_generations(
        edges,
        [v \in {nodes[i] : i \in 1..Len(nodes)} |-> InDegree(edges, v)],
        SelectSeq(nodes, LAMBDA v : InDegree(edges, v) = 0))

\* set_schema, lines 83-86: the transfers of n_id, one per incoming edge,
\* grouped by predecessor as MultiDiGraph.in_edges yields them
TransfersFrom(instances, edges, n_id, p) ==
    LET es == SelectSeq(edges, LAMBDA e : e.u = p /\ e.v = n_id)
    IN [i \in 1..Len(es) |->
          [src |-> instances[es[i].u], out_p |-> es[i].out_p, in_p |-> es[i].in_p]]
Transfers(instances, edges, n_id) ==
    SeqFold(LAMBDA acc, p : acc \o TransfersFrom(instances, edges, n_id, p),
            <<>>, Predecessors(edges, n_id))

StepPerEdgeEnd(instances, nodes, edges) ==
    LET execution_order == topological_sort(nodes, edges)
        ends == SeqFold(LAMBDA acc, n : acc \o <<n>> \o
                            [i \in 1..(InDegree(edges, n) - 1) |-> n],
                        <<>>, execution_order)
    IN [i \in 1..Len(ends) |->
          [block |-> instances[ends[i]],
           transfers |-> Transfers(instances, edges, ends[i])]]
\* set_schema, lines 72-88: the plan, one step per node of execution_order
EmitPlan(instances, nodes, edges) ==
    LET execution_order == topological_sort(nodes, edges)
    IN [i \in 1..Len(execution_order) |->
          [block |-> instances[execution_order[i]],
           transfers |-> Transfers(instances, edges, execution_order[i])]]

\* set_schema, lines 29-63: instances and the graph of a schema, and the
\* exception that ended the node loop, if any
BuildGraph(eng, sch) ==
    LET st0 == [heap |-> eng.heap, block_templates |-> eng.block_templates,
                instances |-> << >>, port_to_node |-> << >>,
                nodes |-> <<>>, edges |-> <<>>, cur |-> <<>>, cur_id |-> 0,
                error |-> ""]
        st1 == SeqFold(InstantiateNode, st0, sch.nodes)
    IN SeqFold(AddConnection, st1, sch.connections)

\* ComputeEngine.set_schema: the engine after the call and the error raised.
\* self.instances is assigned before the cycle check, _compiled_sequence
\* only after it.
set_schema(eng, sch) ==
    LET g == BuildGraph(eng, sch)
        eng1 == [eng EXCEPT !.heap = g.heap, !.instances = g.instances]
    IN IF g.error # ""
       THEN [engine |-> eng1, error |-> g.error]
       ELSE IF find_cycle(g.edges)
       THEN [engine |-> eng1, error |-> "ValueError: Flowchart contains cycles"]
       ELSE [engine |-> [eng1 EXCEPT !._compiled_sequence =
                                        EmitPlan(g.instances, g.nodes, g.edges)],
             error |-> ""]

\* Block.on_compute of a deterministic block: every output port receives a
\* value made of the instance id, the port and the current input values
ComputedValue(blk, port) ==
    <<blk.instance_id, port>> \o
    (IF "A" \in DOMAIN blk._inputs THEN <<blk._inputs["A"]>> ELSE <<>>) \o
    (IF "B" \in DOMAIN blk._inputs THEN <<blk._inputs["B"]>> ELSE <<>>)
on_compute(blk) ==
    [blk EXCEPT !._outputs = [p \in DOMAIN blk._outputs |-> ComputedValue(blk, p)]]

\* run, lines 103-104: block._inputs[dst_port] = src_block._outputs.get(src_port)
DoTransfer(heap, block, t) ==
    LET v == IF t.out_p \in DOMAIN heap[t.src]._outputs
             THEN heap[t.src]._outputs[t.out_p] ELSE Null
    IN [heap EXCEPT ![block]._inputs = (t.in_p :> v) @@ heap[block]._inputs]

RunStepNoAbort(raising, acc, step) ==
    LET h1 == SeqFold(LAMBDA h, t : DoTransfer(h, step.block, t),
                      acc.heap, step.transfers)
        n_id == h1[step.block].instance_id
    IN IF n_id \in raising
       THEN [heap |-> h1, stopped |-> TRUE, failed |-> acc.failed \cup {n_id},
             calls |-> Append(acc.calls, n_id)]
       ELSE [heap |-> [h1 EXCEPT ![step.block] = on_compute(h1[step.block])],
             stopped |-> acc.stopped, failed |-> acc.failed,
             calls |-> Append(acc.calls, n_id)]

\* run, lines 101-112: one step of the plan; once a compute has raised the
\* loop is left and no later step is touched
RunStep(raising, acc, step) ==
    IF acc.stopped THEN acc
    ELSE LET h1 == SeqFold(LAMBDA h, t : DoTransfer(h, step.block, t),
                           acc.heap, step.transfers)
             n_id == h1[step.block].instance_id
         IN IF n_id \in raising
            THEN [heap |-> h1, stopped |-> TRUE, failed |-> acc.failed \cup {n_id},
                  calls |-> Append(acc.calls, n_id)]
            ELSE [heap |-> [h1 EXCEPT ![step.block] = on_compute(h1[step.block])],
                  stopped |-> FALSE, failed |-> acc.failed,
                  calls |-> Append(acc.calls, n_id)]

\* ComputeEngine.run: walks _compiled_sequence; the exception of a failing
\* compute is caught by the outer handler (lines 114-115), so run returns.
\* calls lists the instances whose on_compute was called (line 108), in order
run(eng, raising) ==
    LET r == SeqFold(LAMBDA acc, step : RunStep(raising, acc, step),
                     [heap |-> eng.heap, stopped |-> FALSE, failed |-> {}, calls |-> <<>>],
                     eng._compiled_sequence)
    IN [engine |-> [eng EXCEPT !.heap = r.heap], failed |-> r.failed, calls |-> r.calls]

----------------------------------------------------------------------------
\* Schema documents handed to set_schema: nodes (node id = position, port
\* id = <<node id, port name>>) and connections, MaxSchemaSize in all.

PortId(n_id, key) == <<n_id, key>>
DanglingPort == <<0, "zz">>

NodeKinds == {"Pair", "PairK", "Nope"}

\* a node of the schema as the editor writes it
NodeData(n_id, kind) ==
    LET port(key) == [key |-> key, id |-> PortId(n_id, key), value |-> 0]
        kopt == [key |-> "k", id |-> PortId(n_id, "k"), value |-> 7]
    IN CASE kind = "Pair" ->
              [id |-> n_id, type |-> "Pair",
               inputs |-> <<port("A"), port("B")>>,
               outputs |-> <<port("O"), port("P")>>]
         [] kind = "PairK" ->
              [id |-> n_id, type |-> "Pair",
               inputs |-> <<port("A"), kopt, port("B")>>,
               outputs |-> <<port("O"), port("P")>>]
         [] OTHER ->
              [id |-> n_id, type |-> "DoesNotExist",
               inputs |-> <<port("A")>>, outputs |-> <<port("O")>>]

ConnCandidates(n) ==
    { [from |-> f, to |-> t] :
        f \in {PortId(i, p) : i \in 1..n, p \in {"O", "P"}} \cup {DanglingPort},
        t \in {PortId(i, p) : i \in 1..n, p \in {"A", "B"}} \cup {DanglingPort} }

\* the schema documents of n nodes
SchemaOf(kinds, cs) ==
    [nodes |-> [i \in 1..Len(kinds) |-> NodeData(i, kinds[i])], connections |-> cs]

----------------------------------------------------------------------------
\* EngineManager (manager.py): callers, keys, and the state after __init__.

CoopCallers == {"a1", "a2"}        \* coroutines of the event loop (acquire)
ThreadCallers == {"t1"}             \* a worker thread (acquire_sync)
Callers == CoopCallers \cup ThreadCallers

Businesses == {"daq"}
\* the schema documents callers ask for: an empty one, a two-node pipeline,
\* and a node wired to itself
SchemaNames == {"E", "N", "C"}
ManagedSchema(s) ==
    CASE s = "E" -> SchemaOf(<<>>, <<>>)
      [] s = "N" -> SchemaOf(<<"PairK", "Pair">>,
                             <<[from |-> PortId(1, "O"), to |-> PortId(2, "A")]>>)
      [] OTHER -> SchemaOf(<<"Pair">>,
                           <<[from |-> PortId(1, "O"), to |-> PortId(1, "A")]>>)

\* EngineManager._get_hash: one key per (business_id, schema document)
_get_hash(business_id, s) == <<business_id, s>>
Keys == {_get_hash(b, s) : b \in Businesses, s \in SchemaNames}

\* EngineManager.__init__ (no caller has started)
ManagerConstructedWith(blueprint_size) ==
    /\ maxsize = blueprint_size
    /\ libraries = << >>
    /\ blueprints = <<>>
    /\ pools = << >>
    /\ lock = "free"
    /\ async_lock = "free"
    /\ objs = << >>
    /\ pc = [c \in Callers |-> "idle"]
    /\ req = [c \in Callers |-> <<"", "">>]
    /\ held = [c \in Callers |-> 0]
    /\ bp = [c \in Callers |-> 0]
    /\ from_pool = [c \in Callers |-> FALSE]
    /\ outcome = [c \in Callers |-> ""]
    /\ rounds = [c \in Callers |-> 0]
    /\ running = "none"
    /\ compiles = [k \in Keys |-> 0]
    /\ evictions = [k \in Keys |-> 0]
ManagerConstructed == ManagerConstructedWith(BlueprintSize)

\* no async_run has been called
AsyncIdle ==
    /\ astate = "idle"
    /\ tasks = << >>
    /\ done_events = << >>
    /\ araising = {}
    /\ before = NewEngine

\* the other components before they are used
OptionIdle == oblk = Block("none", {}, {}, << >>) /\ oset = <<>>
HashIdle == hargs = <<>> /\ hkey = <<>>
SchedIdle ==
    /\ sgraph = [nodes |-> {}, adjacency |-> << >>, initial_in_degree |-> << >>]
    /\ sfail = {}
    /\ smain = "idle"
    /\ in_degree = << >>
    /\ finished_count = 0
    /\ done_event = FALSE
    /\ failed = FALSE
    /\ sync_lock = 0
    /\ task = << >>
    /\ submitted = << >>
    /\ executed = << >>
SingletonThreads == {"s1", "s2", "s3"}
\* singleton(cls), lines 14-15: instances = {} and a new lock
SingletonDecorated ==
    /\ single = 0
    /\ single_lock = "free"
    /\ gpc = [t \in SingletonThreads |-> "idle"]
    /\ gnew = [t \in SingletonThreads |-> 0]
    /\ gret = [t \in SingletonThreads |-> <<>>]
    /\ constructed = 0
ExtrasIdle == OptionIdle /\ HashIdle /\ SchedIdle /\ SingletonDecorated

\* OutputFileManager() has been constructed and no thread is in a call
FileThreads == {"f1", "f2"}
NoLocals == [todo |-> {}, arg |-> 0, deleted_count |-> 0, in_cleanup |-> FALSE, ret |-> <<>>]
FilesIdle ==
    /\ files = << >>
    /\ file_lock = "free"
    /\ fpc = [t \in FileThreads |-> "idle"]
    /\ floc = [t \in FileThreads |-> NoLocals]
\* no run has recorded a call and no scope has been entered
OthersIdle == rcalls = <<>> /\ scope = "none" /\ FilesIdle

----------------------------------------------------------------------------
\* SpecCompile: one ComputeEngine, its library, one schema.

InitCompile ==
    /\ \E n \in 0..MaxSchemaSize : \E k \in 0..(MaxSchemaSize - n) :
          \E kinds \in [1..n -> NodeKinds] : \E cs \in [1..k -> ConnCandidates(n)] :
             schema = SchemaOf(kinds, cs)
    /\ engine = NewEngine
    /\ cstate = "new"
    /\ cerror = ""
    /\ rstate = "idle"
    /\ rfailed = {}
    /\ ManagerConstructed
    /\ OthersIdle
    /\ AsyncIdle
    /\ ExtrasIdle

\* ComputeEngine.register_blocks(Library)
RegisterBlocks ==
    /\ cstate = "new"
    /\ engine' = register_blocks(engine, Library)
    /\ cstate' = "registered"
    /\ UNCHANGED <<schema, cerror, rstate, rfailed>>
    /\ UNCHANGED <<mvars, avars, xvars>>

\* ComputeEngine.set_schema(schema)
SetSchema ==
    /\ cstate = "registered"
    /\ LET r == set_schema(engine, schema)
       IN /\ engine' = r.engine
          /\ cerror' = r.error
          /\ cstate' = IF r.error = "" THEN "compiled" ELSE "failed"
    /\ UNCHANGED <<schema, rstate, rfailed>>
    /\ UNCHANGED <<mvars, avars, xvars>>

\* ComputeEngine.run() on the engine; the computes that raise are an input
Run ==
    /\ cstate \in {"compiled", "failed"}
    /\ rstate = "idle"
    /\ \E raising \in SUBSET (DOMAIN engine.instances) :
          LET r == run(engine, raising)
          IN /\ engine' = r.engine
             /\ rfailed' = r.failed
             /\ rcalls' = r.calls
    /\ rstate' = "returned"
    /\ UNCHANGED <<schema, cstate, cerror>>
    /\ UNCHANGED <<mvars, avars, nvars, maxsize, scope, fvars>>

NextCompile == RegisterBlocks \/ SetSchema \/ Run

SpecCompile == InitCompile /\ [][NextCompile]_vars

\* SpecPorts: the compiler on schemas of Pair nodes whose connections join
\* any two port ids, inputs and outputs alike, in either direction
MaxPortNodes == 2
MaxPortConns == 2
AnyPortConns(n) ==
    { [from |-> f, to |-> t] :
        f \in {PortId(i, p) : i \in 1..n, p \in {"A", "B", "O", "P"}},
        t \in {PortId(i, p) : i \in 1..n, p \in {"A", "B", "O", "P"}} }
InitPorts ==
    /\ \E n \in 1..MaxPortNodes : \E k \in 0..MaxPortConns :
          \E cs \in [1..k -> AnyPortConns(n)] :
             schema = SchemaOf([i \in 1..n |-> "Pair"], cs)
    /\ engine = NewEngine
    /\ cstate = "new"
    /\ cerror = ""
    /\ rstate = "idle"
    /\ rfailed = {}
    /\ ManagerConstructed
    /\ OthersIdle
    /\ AsyncIdle
    /\ ExtrasIdle
SpecPorts == InitPorts /\ [][NextCompile]_vars

\* SpecEntry: the compiler on schemas whose nodes carry an input entry named
\* after an option of their template, with a value or without one.  The
\* library has a block with a bounded Integer option and a block with a
\* TextInput option; a str is a sequence of characters.
MaxEntryNodes == 2
TextBlock ==
    Block("Text", {"A"}, {"O"},
          [t |-> Option("t", "TextInput", <<"d">>, NoneV, NoneV)])
EntryLibrary == <<PairBlock, TextBlock>>
EntryKinds == {"PairK", "PairNoValue", "TextV", "TextNoValue"}
EntryNodeData(n_id, kind) ==
    LET port(key) == [key |-> key, id |-> PortId(n_id, key), value |-> 0]
    IN CASE kind = "PairK" -> NodeData(n_id, "PairK")
         [] kind = "PairNoValue" ->
              [id |-> n_id, type |-> "Pair",
               inputs |-> <<port("A"), port("B"), [key |-> "k", id |-> PortId(n_id, "k")]>>,
               outputs |-> <<port("O"), port("P")>>]
         [] kind = "TextV" ->
              [id |-> n_id, type |-> "Text",
               inputs |-> <<port("A"),
                            [key |-> "t", id |-> PortId(n_id, "t"), value |-> <<"v">>]>>,
               outputs |-> <<port("O")>>]
         [] OTHER ->
              [id |-> n_id, type |-> "Text",
               inputs |-> <<port("A"), [key |-> "t", id |-> PortId(n_id, "t")]>>,
               outputs |-> <<port("O")>>]
EntryConns(n) ==
    { [from |-> PortId(u, "O"), to |-> PortId(v, "A")] : u \in 1..n, v \in 1..n }
InitEntry ==
    /\ \E n \in 1..MaxEntryNodes : \E k \in 0..1 :
          \E kinds \in [1..n -> EntryKinds] : \E cs \in [1..k -> EntryConns(n)] :
             schema = [nodes |-> [i \in 1..n |-> EntryNodeData(i, kinds[i])],
                       connections |-> cs]
    /\ engine = NewEngine
    /\ cstate = "new"
    /\ cerror = ""
    /\ rstate = "idle"
    /\ rfailed = {}
    /\ ManagerConstructed
    /\ OthersIdle
    /\ AsyncIdle
    /\ ExtrasIdle
\* ComputeEngine.register_blocks(EntryLibrary)
RegisterEntryBlocks ==
    /\ cstate = "new"
    /\ engine' = register_blocks(engine, EntryLibrary)
    /\ cstate' = "registered"
    /\ UNCHANGED <<schema, cerror, rstate, rfailed>>
    /\ UNCHANGED <<mvars, avars, xvars>>
NextEntry == RegisterEntryBlocks \/ SetSchema \/ Run
SpecEntry == InitEntry /\ [][NextEntry]_vars

----------------------------------------------------------------------------
\* EngineManager operations, one action per step a caller takes.  A thread
\* may be preempted between any two steps; a coroutine keeps the event loop
\* until it reaches a suspension point.

Key(c) == _get_hash(req[c][1], req[c][2])

\* `s_hash in self._blueprints` (Cache.__contains__ does not touch the order)
CachedKeys == {blueprints[i].key : i \in 1..Len(blueprints)}
BlueprintOf(k) == blueprints[CHOOSE i \in 1..Len(blueprints) : blueprints[i].key = k].bp

\* `if s_hash not in self._blueprints` (acquire lines 45, 48; acquire_sync 58, 60)
AlwaysCompile(k) == TRUE
NeedsCompile(k) == k \notin CachedKeys

\* LRUCache.__setitem__: an existing key is replaced and becomes most recent;
\* a new key first pops least recently used entries until there is room
LRUStore(cache, k, b) ==
    LET others == SelectSeq(cache, LAMBDA e : e.key # k)
        kept == IF Len(others) < Len(cache) \/ Len(cache) < maxsize
                THEN others
                ELSE SubSeq(cache, Len(cache) - maxsize + 2, Len(cache))
    IN Append(kept, [key |-> k, bp |-> b])

\* LRUCache.__getitem__: the key read becomes most recent
LRUTouch(cache, k) ==
    SelectSeq(cache, LAMBDA e : e.key # k) \o SelectSeq(cache, LAMBDA e : e.key = k)

\* the engine objects something still refers to (the rest is garbage)
Collect(o, bps, pls, hld, bpl) ==
    LET live == {bps[i].bp : i \in 1..Len(bps)}
                  \cup UNION {{pls[k][i] : i \in 1..Len(pls[k])} : k \in DOMAIN pls}
                  \cup {hld[c] : c \in Callers} \cup {bpl[c] : c \in Callers}
    IN [i \in (DOMAIN o) \cap live |-> o[i]]
FreshId(o) ==
    CHOOSE i \in 1..(Cardinality(DOMAIN o) + 1) :
        i \notin DOMAIN o /\ \A j \in 1..(i - 1) : j \in DOMAIN o

\* the event loop runs one coroutine at a time
Scheduled(c) == c \in ThreadCallers \/ running \in {"none", c}
SuspensionPoints == {"acquired", "ran", "finished"}
Resume(c, newpc) ==
    running' = IF c \in ThreadCallers THEN running
               ELSE IF newpc \in SuspensionPoints THEN "none" ELSE c

\* `async with self._async_lock` (acquire) / `with self._lock` (acquire_sync)
CompileLock(c) == IF c \in CoopCallers THEN async_lock ELSE lock
ReleaseCompileLock(c) ==
    IF c \in CoopCallers
    THEN async_lock' = "free" /\ UNCHANGED lock
    ELSE lock' = "free" /\ UNCHANGED async_lock

\* EngineManager.register_business
register_business(b, blocks) ==
    /\ lock = "free"
    /\ libraries' = (b :> blocks) @@ libraries
    /\ UNCHANGED <<blueprints, pools, lock, async_lock, objs, pc, req, held, bp,
                   from_pool, outcome, rounds, running, compiles, evictions>>
    /\ UNCHANGED <<cvars, avars, xvars>>
\* run.py line 64: engine_manager.register_business("daq", daq_blocks)
RegisterBusiness(b) == b \notin DOMAIN libraries /\ register_business(b, Library)
\* register_business called again for a registered business, with a library
\* whose Pair block has another default
PairBlock2 ==
    Block("Pair", {"A", "B"}, {"O", "P"},
          [k |-> Option("k", "Integer", 2, <<0>>, <<5>>)])
Library2 == <<PairBlock2, ConstBlock>>
ReplaceBusiness(b) ==
    /\ b \in DOMAIN libraries
    /\ libraries[b] = Library
    /\ register_business(b, Library2)
\* self._block_libraries[biz_id] of _create_blueprint_internal line 71; the
\* check of line 68 has let the business pass
LibraryOf(b) == IF b \in DOMAIN libraries THEN libraries[b] ELSE <<>>

\* the requests made so far
RECURSIVE SumRounds(_)
SumRounds(cs) ==
    IF cs = {} THEN 0
    ELSE LET c == CHOOSE x \in cs : TRUE IN rounds[c] + SumRounds(cs \ {c})
Requests == SumRounds(Callers)

\* a caller starts a request: acquire lines 43-45 / acquire_sync lines 56-58,
\* s_hash and the check outside the lock
Begin(c) ==
    /\ pc[c] \in {"idle", "finished"}
    /\ Requests < MaxRequests
    /\ Scheduled(c)
    /\ \E b \in Businesses, s \in SchemaNames :
          LET newpc == IF NeedsCompile(_get_hash(b, s)) THEN "take_lock" ELSE "acquired"
          IN /\ req' = [req EXCEPT ![c] = <<b, s>>]
             /\ pc' = [pc EXCEPT ![c] = newpc]
             /\ Resume(c, newpc)
    /\ rounds' = [rounds EXCEPT ![c] = @ + 1]
    /\ held' = [held EXCEPT ![c] = 0]
    /\ from_pool' = [from_pool EXCEPT ![c] = FALSE]
    /\ outcome' = [outcome EXCEPT ![c] = ""]
    /\ objs' = Collect(objs, blueprints, pools, held', bp)
    /\ UNCHANGED <<libraries, blueprints, pools, lock, async_lock, bp, compiles, evictions>>
    /\ UNCHANGED <<cvars, avars, xvars>>

\* acquire line 46 (async_lock; a coroutine that finds it taken suspends) /
\* acquire_sync line 59 (_lock; a thread that finds it taken blocks)
TakeCompileLock(c) ==
    /\ pc[c] = "take_lock"
    /\ Scheduled(c)
    /\ c \in ThreadCallers => lock = "free"
    /\ IF c \in ThreadCallers
       THEN /\ lock' = c
            /\ pc' = [pc EXCEPT ![c] = "locked"]
            /\ UNCHANGED <<async_lock, running>>
       ELSE IF async_lock = "free"
            THEN /\ async_lock' = c
                 /\ pc' = [pc EXCEPT ![c] = "locked"]
                 /\ running' = c
                 /\ UNCHANGED lock
            ELSE /\ running' = "none"
                 /\ UNCHANGED <<lock, async_lock, pc>>
    /\ UNCHANGED <<libraries, blueprints, pools, objs, req, held, bp,
                   from_pool, outcome, rounds, compiles, evictions>>
    /\ UNCHANGED <<cvars, avars, xvars>>

\* _create_blueprint_internal line 68: `if biz_id not in self._block_libraries`
AnyBusiness(b) == TRUE
BusinessKnown(b) == b \in DOMAIN libraries

\* _create_blueprint_internal line 69: raise ValueError(f"Business {biz_id} not registered.")
UnknownBusiness == "ValueError: Business not registered"

\* _create_blueprint_internal line 74: an exception of bp.set_schema(schema)
\* leaves the function before lines 76-77 and travels through the `with`
\* block of acquire / acquire_sync to the caller
ErrorSwallowed(r) == ""
CompileFailure(r) == r.error

\* acquire lines 48-49 / acquire_sync lines 60-61, the check under the lock,
\* and _create_blueprint_internal lines 68-74: the business check, a new
\* ComputeEngine, register_blocks, set_schema; an exception leaves the
\* `with` block, which releases the lock
Compile(c) ==
    /\ pc[c] = "locked"
    /\ Scheduled(c)
    /\ LET r == set_schema(register_blocks(NewEngine, LibraryOf(req[c][1])),
                        ManagedSchema(req[c][2]))
           err == IF ~ BusinessKnown(req[c][1]) THEN UnknownBusiness
                  ELSE CompileFailure(r)
           id == FreshId(objs)
           newpc == IF ~ NeedsCompile(Key(c)) THEN "acquired"
                    ELSE IF err # "" THEN "finished" ELSE "store_bp"
       IN /\ pc' = [pc EXCEPT ![c] = newpc]
          /\ Resume(c, newpc)
          /\ IF newpc = "store_bp"
             THEN /\ objs' = (id :> [key |-> Key(c), eng |-> r.engine]) @@ objs
                  /\ bp' = [bp EXCEPT ![c] = id]
                  /\ UNCHANGED <<lock, async_lock, outcome>>
             ELSE /\ outcome' = [outcome EXCEPT ![c] = IF newpc = "finished" THEN err ELSE @]
                  /\ ReleaseCompileLock(c)
                  /\ UNCHANGED <<objs, bp>>
    /\ UNCHANGED <<libraries, blueprints, pools, req, held,
                   from_pool, rounds, compiles, evictions>>
    /\ UNCHANGED <<cvars, avars, xvars>>

\* _create_blueprint_internal line 76: self._blueprints[s_hash] = bp
StoreBlueprint(c) ==
    /\ pc[c] = "store_bp"
    /\ Scheduled(c)
    /\ blueprints' = LRUStore(blueprints, Key(c), bp[c])
    /\ compiles' = [compiles EXCEPT ![Key(c)] = @ + 1]
    /\ evictions' = [k \in Keys |->
          IF k \in CachedKeys /\ k # Key(c) /\
             ~ \E i \in 1..Len(blueprints') : blueprints'[i].key = k
          THEN evictions[k] + 1 ELSE evictions[k]]
    /\ pc' = [pc EXCEPT ![c] = "store_pool"]
    /\ Resume(c, "store_pool")
    /\ objs' = Collect(objs, blueprints', pools, held, bp)
    /\ UNCHANGED <<libraries, pools, lock, async_lock, req, held, bp,
                   from_pool, outcome, rounds>>
    /\ UNCHANGED <<cvars, avars, xvars>>

\* _create_blueprint_internal line 77: self._instance_pools[s_hash] = deque(),
\* then the `with` block of acquire / acquire_sync ends
StorePool(c) ==
    /\ pc[c] = "store_pool"
    /\ Scheduled(c)
    /\ pools' = (Key(c) :> <<>>) @@ pools
    /\ bp' = [bp EXCEPT ![c] = 0]
    /\ pc' = [pc EXCEPT ![c] = "acquired"]
    /\ Resume(c, "acquired")
    /\ ReleaseCompileLock(c)
    /\ objs' = Collect(objs, blueprints, pools', held, bp')
    /\ UNCHANGED <<libraries, blueprints, req, held,
                   from_pool, outcome, rounds, compiles, evictions>>
    /\ UNCHANGED <<cvars, avars, xvars>>

\* ScopedEngine.__aenter__ / ScopedEngineSync.__enter__: _get_instance
\* line 81, `with self._lock`
EnterLock(c) ==
    /\ pc[c] = "acquired"
    /\ Scheduled(c)
    /\ lock = "free"
    /\ lock' = c
    /\ pc' = [pc EXCEPT ![c] = "get_instance"]
    /\ Resume(c, "get_instance")
    /\ UNCHANGED <<libraries, blueprints, pools, async_lock, objs, req, held, bp,
                   from_pool, outcome, rounds, compiles, evictions>>
    /\ UNCHANGED <<cvars, avars, xvars>>

\* pool.popleft() leaves the rest of the deque
PoolAfterPeek(pool) == pool
PoolAfterPop(pool) == Tail(pool)

\* copy.deepcopy(self._blueprints[s_hash]) is a new object (id), equal to
\* the blueprint
ReturnBlueprint(k, id) == BlueprintOf(k)
deepcopy_blueprint(k, id) == id

\* _get_instance lines 82-86 under _lock: pop from the pool, else deep-copy
\* the blueprint; a missing pool or blueprint raises KeyError
GetInstance(c) ==
    /\ pc[c] = "get_instance"
    /\ Scheduled(c)
    /\ LET k == Key(c)
           id == FreshId(objs)
       IN IF k \notin DOMAIN pools \/ (pools[k] = <<>> /\ k \notin CachedKeys)
          THEN /\ outcome' = [outcome EXCEPT ![c] = "KeyError"]
               /\ pc' = [pc EXCEPT ![c] = "finished"]
               /\ Resume(c, "finished")
               /\ UNCHANGED <<blueprints, pools, objs, held, from_pool>>
          ELSE /\ pc' = [pc EXCEPT ![c] = "holding"]
               /\ Resume(c, "holding")
               /\ UNCHANGED outcome
               /\ IF pools[k] # <<>>
                  THEN /\ held' = [held EXCEPT ![c] = Head(pools[k])]
                       /\ pools' = [pools EXCEPT ![k] = PoolAfterPop(pools[k])]
                       /\ from_pool' = [from_pool EXCEPT ![c] = TRUE]
                       /\ UNCHANGED <<blueprints, objs>>
                  ELSE /\ held' = [held EXCEPT ![c] = deepcopy_blueprint(k, id)]
                       /\ objs' = (deepcopy_blueprint(k, id) :>
                                      [key |-> k, eng |-> objs[BlueprintOf(k)].eng]) @@ objs
                       /\ blueprints' = LRUTouch(blueprints, k)
                       /\ UNCHANGED <<pools, from_pool>>
    /\ lock' = "free"
    /\ UNCHANGED <<libraries, async_lock, req, bp, rounds, compiles, evictions>>
    /\ UNCHANGED <<cvars, avars, xvars>>

\* the caller runs the engine it holds (run.py lines 98, 105)
UseEngine(c) ==
    /\ pc[c] = "holding"
    /\ Scheduled(c)
    /\ \E raising \in SUBSET (DOMAIN objs[held[c]].eng.instances) :
          objs' = [objs EXCEPT ![held[c]].eng = run(@, raising).engine]
    /\ pc' = [pc EXCEPT ![c] = "ran"]
    /\ Resume(c, "ran")
    /\ UNCHANGED <<libraries, blueprints, pools, lock, async_lock, req, held, bp,
                   from_pool, outcome, rounds, compiles, evictions>>
    /\ UNCHANGED <<cvars, avars, xvars>>

\* _return_instance lines 90-91: inst.reset() for every instance.  Block
\* (block.py lines 42-152) defines no reset, so the first instance raises
\* AttributeError; only an engine without instances gets past the loop
reset_instances(eng) ==
    IF DOMAIN eng.instances = {}
    THEN [engine |-> eng, error |-> ""]
    ELSE [engine |-> eng, error |-> "AttributeError: 'Block' object has no attribute 'reset'"]

\* ScopedEngine.__aexit__ / ScopedEngineSync.__exit__: _return_instance
\* lines 90-93, the reset loop and, when it raised nothing, `with self._lock`
ExitReset(c) ==
    /\ pc[c] \in {"holding", "ran"}
    /\ Scheduled(c)
    /\ LET r == reset_instances(objs[held[c]].eng)
           newpc == IF r.error = "" THEN "return_instance" ELSE "finished"
       IN /\ r.error = "" => lock = "free"
          /\ lock' = IF r.error = "" THEN c ELSE lock
          /\ objs' = [objs EXCEPT ![held[c]].eng = r.engine]
          /\ outcome' = [outcome EXCEPT ![c] = r.error]
          /\ pc' = [pc EXCEPT ![c] = newpc]
          /\ Resume(c, newpc)
    /\ UNCHANGED <<libraries, blueprints, pools, async_lock, req, held, bp,
                   from_pool, rounds, compiles, evictions>>
    /\ UNCHANGED <<cvars, avars, xvars>>

\* _return_instance line 95: `len(pool) < self._pool_max`
PoolHasRoomOffByOne(pool) == Len(pool) <= PoolMax
PoolHasRoom(pool) == Len(pool) < PoolMax

\* _return_instance lines 94-96 under _lock
ReturnInstance(c) ==
    /\ pc[c] = "return_instance"
    /\ Scheduled(c)
    /\ LET k == Key(c)
       IN IF k \in DOMAIN pools /\ PoolHasRoom(pools[k])
          THEN /\ pools' = [pools EXCEPT ![k] = Append(@, held[c])]
               /\ outcome' = [outcome EXCEPT ![c] = "pooled"]
          ELSE /\ outcome' = [outcome EXCEPT ![c] = "discarded"]
               /\ UNCHANGED pools
    /\ lock' = "free"
    /\ pc' = [pc EXCEPT ![c] = "finished"]
    /\ Resume(c, "finished")
    /\ UNCHANGED <<libraries, blueprints, async_lock, objs, req, held, bp,
                   from_pool, rounds, compiles, evictions>>
    /\ UNCHANGED <<cvars, avars, xvars>>

\* the steps of a request after its first one
ScopeStep(c) ==
    \/ TakeCompileLock(c) \/ Compile(c)
    \/ StoreBlueprint(c) \/ StorePool(c) \/ EnterLock(c) \/ GetInstance(c)
    \/ UseEngine(c) \/ ExitReset(c) \/ ReturnInstance(c)
CallerStep(c) == Begin(c) \/ ScopeStep(c)

InitMgr ==
    /\ schema = SchemaOf(<<>>, <<>>)
    /\ engine = NewEngine
    /\ cstate = "new"
    /\ cerror = ""
    /\ rstate = "idle"
    /\ rfailed = {}
    /\ ManagerConstructed
    /\ OthersIdle
    /\ AsyncIdle
    /\ ExtrasIdle

\* SpecCoop: the manager used by the coroutines of one event loop only
NextCoop ==
    \/ \E b \in Businesses : RegisterBusiness(b)
    \/ \E c \in CoopCallers : CallerStep(c)
SpecCoop == InitMgr /\ [][NextCoop]_vars

\* SpecRelib: the same, and the library of a business may be replaced
NextRelib ==
    \/ NextCoop
    \/ \E b \in Businesses : ReplaceBusiness(b)
SpecRelib == InitMgr /\ [][NextRelib]_vars

\* SpecLru: the coroutines and a manager whose cache holds one blueprint more
LruSize == BlueprintSize + 1
InitLru ==
    /\ schema = SchemaOf(<<>>, <<>>)
    /\ engine = NewEngine
    /\ cstate = "new"
    /\ cerror = ""
    /\ rstate = "idle"
    /\ rfailed = {}
    /\ ManagerConstructedWith(LruSize)
    /\ OthersIdle
    /\ AsyncIdle
    /\ ExtrasIdle
SpecLru == InitLru /\ [][NextCoop]_vars

\* SpecSeq: one caller executes one schema again and again (run_schema,
\* run.py lines 75-107, called with the same schema).  held keeps the engine
\* of the previous scope so that the next one can be compared with it.
SeqCaller == "a1"
FirstCall(c) == pc[c] = "idle" /\ Begin(c)
Repeat(c) ==
    /\ pc[c] = "finished"
    /\ Requests < MaxRequests
    /\ Scheduled(c)
    /\ LET newpc == IF NeedsCompile(Key(c)) THEN "take_lock" ELSE "acquired"
       IN pc' = [pc EXCEPT ![c] = newpc] /\ Resume(c, newpc)
    /\ rounds' = [rounds EXCEPT ![c] = @ + 1]
    /\ from_pool' = [from_pool EXCEPT ![c] = FALSE]
    /\ outcome' = [outcome EXCEPT ![c] = ""]
    /\ UNCHANGED <<libraries, blueprints, pools, lock, async_lock, objs, req, held, bp,
                   compiles, evictions>>
    /\ UNCHANGED <<cvars, avars, xvars>>
NextSeq ==
    \/ \E b \in Businesses : RegisterBusiness(b)
    \/ FirstCall(SeqCaller)
    \/ Repeat(SeqCaller)
    \/ ScopeStep(SeqCaller)
SpecSeq == InitMgr /\ [][NextSeq]_vars

\* SpecMgr: coroutines (acquire) and worker threads (acquire_sync) together
NextMgr ==
    \/ \E b \in Businesses : RegisterBusiness(b)
    \/ \E c \in Callers : CallerStep(c)
SpecMgr == InitMgr /\ [][NextMgr]_vars

----------------------------------------------------------------------------
\* ComputeEngine.async_run (engine.py lines 117-165): one execute_node task
\* per step of the plan on the event loop.  Block.async_on_compute runs
\* on_compute in a worker thread (block.py lines 143-144); a block reads its
\* own inputs and writes its own outputs only.

\* the instance ids of the plan's blocks and the step of an instance
PlanIds(eng) ==
    {eng.heap[eng._compiled_sequence[i].block].instance_id :
        i \in 1..Len(eng._compiled_sequence)}
StepIndex(eng, n) ==
    CHOOSE i \in 1..Len(eng._compiled_sequence) :
        eng.heap[eng._compiled_sequence[i].block].instance_id = n
StepOf(eng, n) == eng._compiled_sequence[StepIndex(eng, n)]

\* execute_node lines 132-134: the instance ids of the transfers' sources
dependency_ids(eng, n) ==
    {eng.heap[StepOf(eng, n).transfers[i].src].instance_id :
        i \in 1..Len(StepOf(eng, n).transfers)}

\* execute_node line 136: the gather of done_events[dep_id].wait() is over
DepsIgnored(n) == TRUE
DepsSucceeded(n) == \A d \in dependency_ids(engine, n) : tasks[d] = "done_ok"
DepsDone(n) == \A d \in dependency_ids(engine, n) : done_events[d]

DoneStates == {"done_ok", "done_err"}

\* async_run lines 126, 157-164: the events are created, gather wraps every
\* execute_node coroutine in a task and async_run suspends; every task then
\* runs to its first await before any other callback of the loop: the wait
\* for its dependencies (line 136) or, without transfers, async_on_compute
AsyncStart ==
    /\ cstate \in {"compiled", "failed"}
    /\ astate = "idle"
    /\ astate' = "running"
    /\ \E raising \in SUBSET (DOMAIN engine.instances) : araising' = raising
    /\ done_events' = [n \in DOMAIN engine.instances |-> FALSE]
    /\ tasks' = [n \in PlanIds(engine) |->
                   IF StepOf(engine, n).transfers = <<>> THEN "computing" ELSE "waiting"]
    /\ before' = engine
    /\ UNCHANGED <<schema, engine, cstate, cerror, rstate, rfailed>>
    /\ UNCHANGED <<mvars, xvars>>

\* execute_node lines 136-145: the wait is over, the transfers are copied
\* and async_on_compute is called, without an await in between
WakeAndCopy(n) ==
    /\ n \in DOMAIN tasks
    /\ tasks[n] = "waiting"
    /\ DepsDone(n)
    /\ engine' = [engine EXCEPT !.heap =
          SeqFold(LAMBDA h, t : DoTransfer(h, StepOf(engine, n).block, t),
                  engine.heap, StepOf(engine, n).transfers)]
    /\ tasks' = [tasks EXCEPT ![n] = "computing"]
    /\ UNCHANGED <<schema, cstate, cerror, rstate, rfailed>>
    /\ UNCHANGED <<astate, done_events, araising, before>>
    /\ UNCHANGED <<mvars, xvars>>

\* execute_node lines 150-152: `finally` sets the event, whatever happened
SetOnSuccessOnly(n) == n \notin araising
SetInFinally(n) == TRUE

\* execute_node lines 143-152: on_compute has ended in its thread and the
\* task resumes: the exception, if any, is raised again, and `finally` sets
\* the event of the node
FinishCompute(n) ==
    /\ n \in DOMAIN tasks
    /\ tasks[n] = "computing"
    /\ IF n \in araising
       THEN /\ tasks' = [tasks EXCEPT ![n] = "done_err"]
            /\ UNCHANGED engine
       ELSE /\ tasks' = [tasks EXCEPT ![n] = "done_ok"]
            /\ engine' = [engine EXCEPT !.heap[StepOf(engine, n).block] = on_compute(@)]
    /\ done_events' = [done_events EXCEPT ![n] = SetInFinally(n)]
    /\ UNCHANGED <<schema, cstate, cerror, rstate, rfailed>>
    /\ UNCHANGED <<astate, araising, before>>
    /\ UNCHANGED <<mvars, xvars>>

\* async_run lines 162-165: `await asyncio.gather(*async_tasks)` ends when
\* every task has ended or, return_exceptions being False, as soon as one
\* task has raised; the other tasks are not cancelled and keep running.  The
\* exception is caught (line 164), so async_run returns normally
GatherOver ==
    \/ \A n \in DOMAIN tasks : tasks[n] \in DoneStates
    \/ \E n \in DOMAIN tasks : tasks[n] = "done_err"
AsyncReturn ==
    /\ astate = "running"
    /\ GatherOver
    /\ astate' = "returned"
    /\ UNCHANGED <<schema, engine, cstate, cerror, rstate, rfailed>>
    /\ UNCHANGED <<tasks, done_events, araising, before>>
    /\ UNCHANGED <<mvars, xvars>>

\* the task running async_run is cancelled while it awaits gather (the
\* engine has no cancellation parameter of its own): gather cancels every
\* unfinished task.  A task waiting at line 136 ends there, outside the
\* try/finally of lines 143-152, so its event stays unset; a task awaiting
\* async_on_compute runs `finally` and sets its event, while on_compute goes
\* on in its thread.  CancelledError is not an Exception: it leaves async_run
Cancel ==
    /\ astate = "running"
    /\ astate' = "cancelled"
    /\ tasks' = [n \in DOMAIN tasks |->
                   IF tasks[n] = "waiting" THEN "cancelled"
                   ELSE IF tasks[n] = "computing" THEN "detached"
                   ELSE tasks[n]]
    /\ done_events' = [n \in DOMAIN done_events |->
                   done_events[n] \/ (n \in DOMAIN tasks /\ tasks[n] = "computing")]
    /\ UNCHANGED <<schema, engine, cstate, cerror, rstate, rfailed>>
    /\ UNCHANGED <<araising, before>>
    /\ UNCHANGED <<mvars, xvars>>

\* the on_compute of a cancelled task ends in its worker thread
DetachedCompute(n) ==
    /\ n \in DOMAIN tasks
    /\ tasks[n] = "detached"
    /\ tasks' = [tasks EXCEPT ![n] = "abandoned"]
    /\ engine' = IF n \in araising THEN engine
                 ELSE [engine EXCEPT !.heap[StepOf(engine, n).block] = on_compute(@)]
    /\ UNCHANGED <<schema, cstate, cerror, rstate, rfailed>>
    /\ UNCHANGED <<astate, done_events, araising, before>>
    /\ UNCHANGED <<mvars, xvars>>

\* run() called on the engine before any async_run
RunBefore == astate = "idle" /\ Run

\* SpecExec: one compiled engine, an optional run, then one async_run.  The
\* option entries of a node play no part in a run.
ExecKinds == {"Pair", "Nope"}
InitExec ==
    /\ \E n \in 0..MaxExecSize : \E k \in 0..(MaxExecSize - n) :
          \E kinds \in [1..n -> ExecKinds] : \E cs \in [1..k -> ConnCandidates(n)] :
             schema = SchemaOf(kinds, cs)
    /\ LET r == set_schema(register_blocks(NewEngine, Library), schema)
       IN /\ engine = r.engine
          /\ cerror = r.error
          /\ cstate = IF r.error = "" THEN "compiled" ELSE "failed"
    /\ rstate = "idle"
    /\ rfailed = {}
    /\ ManagerConstructed
    /\ OthersIdle
    /\ AsyncIdle
    /\ ExtrasIdle
NextExec ==
    \/ RunBefore
    \/ AsyncStart
    \/ \E n \in 1..MaxExecSize : WakeAndCopy(n)
    \/ \E n \in 1..MaxExecSize : FinishCompute(n)
    \/ AsyncReturn
SpecExec == InitExec /\ [][NextExec]_vars

\* SpecExecFair: one async_run of a freshly compiled engine; the event loop
\* and the worker threads keep going
TaskStep == \E n \in 1..MaxExecSize : WakeAndCopy(n) \/ FinishCompute(n)
NextExecFair == AsyncStart \/ TaskStep \/ AsyncReturn
SpecExecFair ==
    /\ InitExec
    /\ [][NextExecFair]_vars
    /\ WF_vars(TaskStep)

\* SpecCancel: the same, and the caller may cancel the async_run
NextCancel ==
    \/ NextExec
    \/ Cancel
    \/ \E n \in 1..MaxExecSize : DetachedCompute(n)
SpecCancel == InitExec /\ [][NextCancel]_vars

\* SpecScope: run_schema (run.py lines 96-98): the engine of a scope is run
\* with async_run inside `async with`, and the exit of the scope hands it to
\* _return_instance while the node tasks that async_run left behind go on.
\* ScopedEngine.__aenter__: the scope yields the compiled engine
ScopeEnter ==
    /\ cstate = "compiled"
    /\ scope = "none"
    /\ scope' = "entered"
    /\ UNCHANGED <<cvars, mvars, avars, nvars, rcalls, maxsize, fvars>>
\* `await engine.async_run()` inside the scope
ScopedAsyncStart == scope = "entered" /\ AsyncStart
\* ScopedEngine.__aexit__ once async_run has returned: _return_instance
\* lines 90-96, reset loop and pool branch
ScopeExit ==
    /\ scope = "entered"
    /\ astate = "returned"
    /\ scope' = IF reset_instances(engine).error = "" THEN "pooled" ELSE "error"
    /\ UNCHANGED <<cvars, mvars, avars, nvars, rcalls, maxsize, fvars>>
NextScope ==
    \/ ScopeEnter
    \/ ScopedAsyncStart
    \/ TaskStep
    \/ AsyncReturn
    \/ ScopeExit
SpecScope == InitExec /\ [][NextScope]_vars

----------------------------------------------------------------------------
\* SpecOption: one Block with one option "x", created by one of the add_*_option
\* methods or by Option(...) directly, and set_option calls on it.

OptionKinds == NumericTypes \cup {"Checkbox", "Select", "TextInput"}
Limits == {NoneV} \cup {<<m>> : m \in 0..MaxOptionValue}
\* the values handed to set_option: below, inside and above every interval
OptionValues == (0 - 2)..(MaxOptionValue + 2)

InitOption ==
    /\ \E kind \in OptionKinds, lo \in Limits, hi \in Limits, dflt \in {0, MaxOptionValue} :
          /\ (lo # NoneV /\ hi # NoneV) => lo[1] <= hi[1]
          /\ oblk = Block("B", {}, {}, [x |-> Option("x", kind, dflt, lo, hi)])
    /\ oset = <<>>
    /\ schema = SchemaOf(<<>>, <<>>)
    /\ engine = NewEngine
    /\ cstate = "new"
    /\ cerror = ""
    /\ rstate = "idle"
    /\ rfailed = {}
    /\ ManagerConstructed
    /\ OthersIdle
    /\ AsyncIdle
    /\ HashIdle
    /\ SchedIdle
    /\ SingletonDecorated

\* block.set_option(name, v)
SetOption ==
    /\ \E name \in {"x", "y"}, v \in OptionValues :
          /\ oblk' = set_option(oblk, name, v)
          /\ oset' = <<name, v>>
    /\ UNCHANGED <<cvars, mvars, avars, hvars, svars, gvars, yvars>>

NextOption == SetOption
SpecOption == InitOption /\ [][NextOption]_vars

----------------------------------------------------------------------------
\* SpecHash: EngineManager._get_hash on JSON documents.  A document is a
\* string, an array, or an object whose keys are kept in insertion order (a
\* Python dict); a str is a sequence of tokens.

Str(v) == [t |-> "str", keys |-> <<>>, items |-> <<>>, v |-> v]
Arr(items) == [t |-> "arr", keys |-> <<>>, items |-> items, v |-> ""]
Obj(keys, items) == [t |-> "obj", keys |-> keys, items |-> items, v |-> ""]

\* the keys that occur in the documents, in lexicographic order
KeyOrder == <<"connections", "id", "nodes", "type">>
ValueAt(doc, k) == doc.items[CHOOSE i \in 1..Len(doc.keys) : doc.keys[i] = k]

\* json.dumps(obj, sort_keys=...): objects list their keys sorted when
\* sort_keys is set and in insertion order otherwise, at every level
RECURSIVE dumps(_, _)
RECURSIVE dumps_items(_, _, _)
RECURSIVE dumps_members(_, _, _, _)
dumps_items(items, i, sort_keys) ==
    IF i > Len(items) THEN <<>>
    ELSE (IF i > 1 THEN <<", ">> ELSE <<>>) \o dumps(items[i], sort_keys)
         \o dumps_items(items, i + 1, sort_keys)
dumps_members(doc, ks, i, sort_keys) ==
    IF i > Len(ks) THEN <<>>
    ELSE (IF i > 1 THEN <<", ">> ELSE <<>>) \o <<"\"", ks[i], "\"", ": ">>
         \o dumps(ValueAt(doc, ks[i]), sort_keys)
         \o dumps_members(doc, ks, i + 1, sort_keys)
dumps(doc, sort_keys) ==
    IF doc.t = "str" THEN <<"\"", doc.v, "\"">>
    ELSE IF doc.t = "arr" THEN <<"[">> \o dumps_items(doc.items, 1, sort_keys) \o <<"]">>
    ELSE LET ks == IF sort_keys
                   THEN SelectSeq(KeyOrder, LAMBDA k : \E i \in 1..Len(doc.keys) : doc.keys[i] = k)
                   ELSE doc.keys
         IN <<"{">> \o dumps_members(doc, ks, 1, sort_keys) \o <<"}">>

\* _get_hash line 37: s_str = json.dumps(schema, sort_keys=True)
DumpsInsertionOrder(doc) == dumps(doc, FALSE)
json_dumps(doc) == dumps(doc, TRUE)

\* hashlib.md5(...).hexdigest(): a digest names its input (collisions of MD5
\* are left out)
md5(str) == <<"md5", str>>

\* _get_hash line 38, on a document: md5 of f"{business_id}:{s_str}".  The
\* manager model above names each document it is asked for (SchemaNames) and
\* uses _get_hash on the names.
get_hash_of(business_id, doc) == md5(<<business_id, ":">> \o json_dumps(doc))

HashBusinesses == {"daq", "lab"}
InjSeqs(S, n) == {q \in [1..n -> S] : \A i, j \in 1..n : i # j => q[i] # q[j]}
ObjectsOver(K, V) ==
    UNION {{Obj(ks, vs) : ks \in InjSeqs(K, n), vs \in [1..n -> V]} : n \in 0..Cardinality(K)}
NodeDocs == ObjectsOver({"id", "type"}, {Str("1")})
ArrayDocs == UNION {{Arr(q) : q \in [1..n -> NodeDocs]} : n \in 0..MaxArrayLen}
Docs == ObjectsOver({"connections", "nodes"}, ArrayDocs \cup {Str("1")})

InitHash ==
    /\ \E b \in HashBusinesses, doc \in Docs : hargs = <<b, doc>>
    /\ hkey = <<>>
    /\ schema = SchemaOf(<<>>, <<>>)
    /\ engine = NewEngine
    /\ cstate = "new"
    /\ cerror = ""
    /\ rstate = "idle"
    /\ rfailed = {}
    /\ ManagerConstructed
    /\ OthersIdle
    /\ AsyncIdle
    /\ OptionIdle
    /\ SchedIdle
    /\ SingletonDecorated

\* self._get_hash(business_id, schema)
GetHash ==
    /\ hkey = <<>>
    /\ hkey' = <<get_hash_of(hargs[1], hargs[2])>>
    /\ UNCHANGED <<hargs, cvars, mvars, avars, ovars, svars, gvars, yvars>>

NextHash == GetHash
SpecHash == InitHash /\ [][NextHash]_vars

----------------------------------------------------------------------------
\* SpecSched: the counter-based scheduler of flow/compute/engine.py.  One
\* ComputeEngine whose schema has nodes of registered type only, one call of
\* run(), and the tasks run() and the tasks themselves submit to the
\* ThreadPoolExecutor.  A task is named by the node it was submitted for.

\* _build_graph lines 86-98: port_map gets the input entries that are inputs
\* of the instance and every output entry
sched_port_map(sch) ==
    LET entries(nd) ==
            {<<nd.inputs[i].id, <<nd.id, nd.inputs[i].key, "input">>>> :
                 i \in {x \in 1..Len(nd.inputs) :
                           nd.inputs[x].key \in DOMAIN PairBlock._inputs}}
            \cup {<<nd.outputs[i].id, <<nd.id, nd.outputs[i].key, "output">>>> :
                     i \in 1..Len(nd.outputs)}
        all == UNION {entries(sch.nodes[i]) : i \in 1..Len(sch.nodes)}
    IN [p \in {e[1] : e \in all} |-> (CHOOSE e \in all : e[1] = p)[2]]

\* _build_graph lines 101-111: one connection; adjacency gets one entry and
\* the in-degree of the target node one count per connection
sched_add_connection(g, conn) ==
    IF conn.from \notin DOMAIN g.port_map \/ conn.to \notin DOMAIN g.port_map
    THEN g
    ELSE LET f_node == g.port_map[conn.from][1]
             t_node == g.port_map[conn.to][1]
         IN [g EXCEPT !.adjacency[f_node] = Append(@, t_node),
                      !.initial_in_degree[t_node] = @ + 1]

\* ComputeEngine._build_graph
_build_graph(sch) ==
    LET ids == {sch.nodes[i].id : i \in 1..Len(sch.nodes)}
        g0 == [nodes |-> ids,
               port_map |-> sched_port_map(sch),
               adjacency |-> [n \in ids |-> <<>>],
               initial_in_degree |-> [n \in ids |-> 0]]
        g == SeqFold(sched_add_connection, g0, sch.connections)
    IN [nodes |-> g.nodes, adjacency |-> g.adjacency,
        initial_in_degree |-> g.initial_in_degree]

\* the connections of the schemas: from an output of a node to an input of
\* a later node, so that the graph has no cycle
SchedConnCandidates(n) ==
    { cn \in { [from |-> PortId(u, "O"), to |-> PortId(v, p)] :
                  u \in 1..n, v \in 1..n, p \in {"A", "B"} } :
         cn.from[1] < cn.to[1] }

NoTask == [pc |-> "none", todo |-> {}, cur |-> 0]

InitSched ==
    /\ \E n \in 0..MaxSchedNodes : \E k \in 0..MaxSchedConns :
          \E cs \in [1..k -> SchedConnCandidates(n)] :
             /\ sgraph = _build_graph(SchemaOf([i \in 1..n |-> "Pair"], cs))
             /\ \E bad \in {{}} \cup {{x} : x \in 1..n} : sfail = bad
             /\ task = [i \in 1..n |-> NoTask]
             /\ submitted = [i \in 1..n |-> 0]
             /\ executed = [i \in 1..n |-> 0]
    /\ smain = "idle"
    /\ in_degree = << >>
    /\ finished_count = 0
    /\ done_event = FALSE
    /\ failed = FALSE
    /\ sync_lock = 0
    /\ schema = SchemaOf(<<>>, <<>>)
    /\ engine = NewEngine
    /\ cstate = "new"
    /\ cerror = ""
    /\ rstate = "idle"
    /\ rfailed = {}
    /\ ManagerConstructed
    /\ OthersIdle
    /\ AsyncIdle
    /\ OptionIdle
    /\ HashIdle
    /\ SingletonDecorated

\* executor.submit(self._sync_execute_task, n, ctx, executor): the task
\* table after one more submission for each node of ns
Submit(tk, ns) ==
    [n \in DOMAIN tk |-> IF n \in ns /\ tk[n].pc = "none"
                          THEN [tk[n] EXCEPT !.pc = "queued"] ELSE tk[n]]

\* run lines 183-199: ctx, the seeds, and the wait for done_event
RunStart ==
    /\ smain = "idle"
    /\ IF sgraph.nodes = {}
       THEN /\ smain' = "returned"
            /\ UNCHANGED <<in_degree, task, submitted>>
       ELSE LET seeds == {n \in sgraph.nodes : sgraph.initial_in_degree[n] = 0}
            IN /\ smain' = "waiting"
               /\ in_degree' = sgraph.initial_in_degree
               /\ task' = Submit(task, seeds)
               /\ submitted' = [n \in DOMAIN submitted |->
                                   IF n \in seeds THEN submitted[n] + 1 ELSE submitted[n]]
    /\ UNCHANGED <<sgraph, sfail, finished_count, done_event, failed, sync_lock, executed>>
    /\ UNCHANGED <<cvars, mvars, avars, ovars, hvars, gvars, yvars>>

\* done_event.wait() returns; leaving the `with` block shuts the executor down
MainWake ==
    /\ smain = "waiting"
    /\ done_event
    /\ smain' = "shutdown"
    /\ UNCHANGED <<sgraph, sfail, in_degree, finished_count, done_event, failed,
                   sync_lock, task, submitted, executed>>
    /\ UNCHANGED <<cvars, mvars, avars, ovars, hvars, gvars, yvars>>

\* executor.shutdown(wait=True) returns when no task is queued or running
MainReturn ==
    /\ smain = "shutdown"
    /\ \A n \in DOMAIN task : task[n].pc \in {"none", "done", "skipped"}
    /\ smain' = "returned"
    /\ UNCHANGED <<sgraph, sfail, in_degree, finished_count, done_event, failed,
                   sync_lock, task, submitted, executed>>
    /\ UNCHANGED <<cvars, mvars, avars, ovars, hvars, gvars, yvars>>

\* the tasks that occupy a worker thread
Working == {n \in DOMAIN task : task[n].pc \in {"want_lock", "loop", "check", "finally"}}

\* _sync_execute_task lines 204-212 on a free worker: return when the run
\* has failed, otherwise compute and propagate; an exception goes to the
\* except branch (lines 219-224)
Start(n) ==
    /\ task[n].pc = "queued"
    /\ Cardinality(Working) < MaxWorkers
    /\ IF failed
       THEN /\ task' = [task EXCEPT ![n].pc = "skipped"]
            /\ UNCHANGED <<executed, failed, done_event>>
       ELSE /\ executed' = [executed EXCEPT ![n] = @ + 1]
            /\ IF n \in sfail
               THEN /\ failed' = TRUE
                    /\ done_event' = TRUE
                    /\ task' = [task EXCEPT ![n].pc = "finally"]
               ELSE /\ task' = [task EXCEPT ![n].pc = "want_lock"]
                    /\ UNCHANGED <<failed, done_event>>
    /\ UNCHANGED <<sgraph, sfail, smain, in_degree, finished_count, sync_lock, submitted>>
    /\ UNCHANGED <<cvars, mvars, avars, ovars, hvars, gvars, yvars>>

\* `with self._sync_lock:` (threading.Lock): a thread enters when it is free
LockIgnored(holder) == TRUE
LockFree(holder) == holder = 0

\* line 214-215: the lock is taken and the loop over set(adjacency[n]) begins
EnterLoop(n) ==
    /\ task[n].pc = "want_lock"
    /\ LockFree(sync_lock)
    /\ sync_lock' = n
    /\ task' = [task EXCEPT ![n].pc = "loop",
                            ![n].todo = {sgraph.adjacency[n][i] :
                                            i \in 1..Len(sgraph.adjacency[n])}]
    /\ UNCHANGED <<sgraph, sfail, smain, in_degree, finished_count, done_event,
                   failed, submitted, executed>>
    /\ UNCHANGED <<cvars, mvars, avars, ovars, hvars, gvars, yvars>>

\* line 216: ctx['in_degree'][next_id] -= 1 for the next element of the set
Decrement(n) ==
    /\ task[n].pc = "loop"
    /\ \E m \in task[n].todo :
          /\ in_degree' = [in_degree EXCEPT ![m] = @ - 1]
          /\ task' = [task EXCEPT ![n].pc = "check", ![n].cur = m,
                                  ![n].todo = @ \ {m}]
    /\ UNCHANGED <<sgraph, sfail, smain, finished_count, done_event, failed,
                   sync_lock, submitted, executed>>
    /\ UNCHANGED <<cvars, mvars, avars, ovars, hvars, gvars, yvars>>

\* lines 217-218: submit the successor whose counter is zero; submit raises
\* RuntimeError once the executor is shut down, which leaves the lock and
\* goes to the except branch
Check(n) ==
    /\ task[n].pc = "check"
    /\ LET m == task[n].cur
       IN IF in_degree[m] # 0
          THEN /\ task' = [task EXCEPT ![n].pc = "loop"]
               /\ UNCHANGED <<submitted, failed, done_event, sync_lock>>
          ELSE IF smain \in {"shutdown", "returned"}
          THEN /\ task' = [task EXCEPT ![n].pc = "finally"]
               /\ failed' = TRUE
               /\ done_event' = TRUE
               /\ sync_lock' = 0
               /\ UNCHANGED submitted
          ELSE /\ task' = [Submit(task, {m}) EXCEPT ![n].pc = "loop"]
               /\ submitted' = [submitted EXCEPT ![m] = @ + 1]
               /\ UNCHANGED <<failed, done_event, sync_lock>>
    /\ UNCHANGED <<sgraph, sfail, smain, in_degree, finished_count, executed>>
    /\ UNCHANGED <<cvars, mvars, avars, ovars, hvars, gvars, yvars>>

\* the loop is over and the `with` block releases the lock
ExitLoop(n) ==
    /\ task[n].pc = "loop"
    /\ task[n].todo = {}
    /\ sync_lock' = 0
    /\ task' = [task EXCEPT ![n].pc = "finally"]
    /\ UNCHANGED <<sgraph, sfail, smain, in_degree, finished_count, done_event,
                   failed, submitted, executed>>
    /\ UNCHANGED <<cvars, mvars, avars, ovars, hvars, gvars, yvars>>

\* lines 225-229: under the lock, count the task and set done_event when
\* every node is counted
Finally(n) ==
    /\ task[n].pc = "finally"
    /\ LockFree(sync_lock)
    /\ finished_count' = finished_count + 1
    /\ done_event' = (done_event \/ finished_count + 1 = Cardinality(sgraph.nodes))
    /\ task' = [task EXCEPT ![n].pc = "done"]
    /\ UNCHANGED <<sgraph, sfail, smain, in_degree, failed, sync_lock, submitted, executed>>
    /\ UNCHANGED <<cvars, mvars, avars, ovars, hvars, gvars, yvars>>

WorkerStep(n) ==
    Start(n) \/ EnterLoop(n) \/ Decrement(n) \/ Check(n) \/ ExitLoop(n) \/ Finally(n)
NextSched ==
    \/ RunStart
    \/ MainWake
    \/ MainReturn
    \/ \E n \in DOMAIN task : WorkerStep(n)
\* every thread that can take a step eventually takes one
SpecSched == InitSched /\ [][NextSched]_vars /\ WF_vars(NextSched)

----------------------------------------------------------------------------
\* SpecSingleton: the get_instance wrapper the singleton decorator returns
\* (utils/singleton.py lines 21-27), called by several threads.

\* line 25: `if cls not in instances` under the lock
AssumeMissing(inst) == TRUE
StillMissing(inst) == inst = 0

InitSingleton ==
    /\ SingletonDecorated
    /\ schema = SchemaOf(<<>>, <<>>)
    /\ engine = NewEngine
    /\ cstate = "new"
    /\ cerror = ""
    /\ rstate = "idle"
    /\ rfailed = {}
    /\ ManagerConstructed
    /\ OthersIdle
    /\ AsyncIdle
    /\ OptionIdle
    /\ HashIdle
    /\ SchedIdle

\* line 22: the first check, without the lock
FirstCheck(t) ==
    /\ gpc[t] = "idle"
    /\ Len(gret[t]) < MaxCalls
    /\ gpc' = [gpc EXCEPT ![t] = IF single = 0 THEN "lock" ELSE "return"]
    /\ UNCHANGED <<single, single_lock, gnew, gret, constructed>>
    /\ UNCHANGED <<cvars, mvars, avars, ovars, hvars, svars, yvars>>

\* line 23: `with lock:` blocks while another thread holds the lock
AcquireLock(t) ==
    /\ gpc[t] = "lock"
    /\ single_lock = "free"
    /\ single_lock' = t
    /\ gpc' = [gpc EXCEPT ![t] = "check2"]
    /\ UNCHANGED <<single, gnew, gret, constructed>>
    /\ UNCHANGED <<cvars, mvars, avars, ovars, hvars, svars, yvars>>

\* line 25: the second check; when it fails the `with` block ends
SecondCheck(t) ==
    /\ gpc[t] = "check2"
    /\ IF StillMissing(single)
       THEN gpc' = [gpc EXCEPT ![t] = "construct"] /\ UNCHANGED single_lock
       ELSE gpc' = [gpc EXCEPT ![t] = "return"] /\ single_lock' = "free"
    /\ UNCHANGED <<single, gnew, gret, constructed>>
    /\ UNCHANGED <<cvars, mvars, avars, ovars, hvars, svars, yvars>>

\* line 26, right-hand side: cls(*args, **kwargs) makes a new object
Construct(t) ==
    /\ gpc[t] = "construct"
    /\ constructed' = constructed + 1
    /\ gnew' = [gnew EXCEPT ![t] = constructed + 1]
    /\ gpc' = [gpc EXCEPT ![t] = "store"]
    /\ UNCHANGED <<single, single_lock, gret>>
    /\ UNCHANGED <<cvars, mvars, avars, ovars, hvars, svars, yvars>>

\* line 26, the assignment instances[cls] = ..., and the end of `with lock`
StoreInstance(t) ==
    /\ gpc[t] = "store"
    /\ single' = gnew[t]
    /\ single_lock' = "free"
    /\ gpc' = [gpc EXCEPT ![t] = "return"]
    /\ UNCHANGED <<gnew, gret, constructed>>
    /\ UNCHANGED <<cvars, mvars, avars, ovars, hvars, svars, yvars>>

\* line 27: return instances[cls]
ReturnInstanceOfClass(t) ==
    /\ gpc[t] = "return"
    /\ gret' = [gret EXCEPT ![t] = Append(@, single)]
    /\ gpc' = [gpc EXCEPT ![t] = "idle"]
    /\ UNCHANGED <<single, single_lock, gnew, constructed>>
    /\ UNCHANGED <<cvars, mvars, avars, ovars, hvars, svars, yvars>>

get_instance(t) ==
    \/ FirstCheck(t) \/ AcquireLock(t) \/ SecondCheck(t)
    \/ Construct(t) \/ StoreInstance(t) \/ ReturnInstanceOfClass(t)
NextSingleton == \E t \in SingletonThreads : get_instance(t)
SpecSingleton == InitSingleton /\ [][NextSingleton]_vars

----------------------------------------------------------------------------
\* OutputFileManager (node/output_manager.py): the registry of output files,
\* guarded by one threading.Lock, which is not reentrant.  files keeps every
\* id ever issued (uuid4 ids are never issued twice); _files is the part that
\* is not "deleted".  Threads are the cleanup thread (lines 398-411) and the
\* threads that serve requests and run blocks.

MaxFiles == 2
Registered == {f \in DOMAIN files : files[f] # "deleted"}
zvars == <<cvars, mvars, avars, nvars, rcalls, maxsize, scope>>

InitOutput ==
    /\ schema = SchemaOf(<<>>, <<>>)
    /\ engine = NewEngine
    /\ cstate = "new"
    /\ cerror = ""
    /\ rstate = "idle"
    /\ rfailed = {}
    /\ ManagerConstructed
    /\ OthersIdle
    /\ AsyncIdle
    /\ ExtrasIdle

\* time passes: a file becomes older than the age limit
GrowOld(f) ==
    /\ f \in DOMAIN files
    /\ files[f] = "new"
    /\ files' = [files EXCEPT ![f] = "old"]
    /\ UNCHANGED <<file_lock, fpc, floc, zvars>>

\* a thread calls register_file, get_all_files, delete_file(f) or
\* cleanup_old_files and reaches `with self._lock`.  cleanup_old_files reads
\* the clock first (line 369): todo holds the ids that are old at that time
Call(t) ==
    /\ fpc[t] = "idle"
    /\ \/ /\ Cardinality(DOMAIN files) < MaxFiles
          /\ fpc' = [fpc EXCEPT ![t] = "register_lock"]
          /\ floc' = [floc EXCEPT ![t] = NoLocals]
       \/ /\ fpc' = [fpc EXCEPT ![t] = "get_lock"]
          /\ floc' = [floc EXCEPT ![t] = NoLocals]
       \/ \E f \in DOMAIN files :
             /\ fpc' = [fpc EXCEPT ![t] = "delete_lock"]
             /\ floc' = [floc EXCEPT ![t] = [NoLocals EXCEPT !.arg = f]]
       \/ /\ fpc' = [fpc EXCEPT ![t] = "cleanup_lock"]
          /\ floc' = [floc EXCEPT ![t] =
                [NoLocals EXCEPT !.todo = {f \in DOMAIN files : files[f] = "old"}]]
    /\ UNCHANGED <<files, file_lock, zvars>>

\* threading.Lock.acquire: only a free lock can be taken, also by the thread
\* that holds it
CanAcquire(t) == file_lock = "free"

\* register_file lines 233-239, the whole `with` block
RegisterFile(t) ==
    /\ fpc[t] = "register_lock"
    /\ CanAcquire(t)
    /\ LET id == Cardinality(DOMAIN files) + 1
       IN /\ files' = (id :> "new") @@ files
          /\ floc' = [floc EXCEPT ![t].ret = <<id>>]
    /\ fpc' = [fpc EXCEPT ![t] = "idle"]
    /\ UNCHANGED <<file_lock, zvars>>

\* get_all_files lines 284-288, the whole `with` block
GetAllFiles(t) ==
    /\ fpc[t] = "get_lock"
    /\ CanAcquire(t)
    /\ floc' = [floc EXCEPT ![t].ret = <<Cardinality(Registered)>>]
    /\ fpc' = [fpc EXCEPT ![t] = "idle"]
    /\ UNCHANGED <<files, file_lock, zvars>>

\* delete_file lines 330-354, the whole `with` block: False for an unknown
\* id or when unlink fails, else the entry is removed.  Called from the loop
\* of cleanup_old_files (line 388) it returns into that loop
DeleteFile(t) ==
    /\ fpc[t] = "delete_lock"
    /\ CanAcquire(t)
    /\ \E unlinked \in BOOLEAN :
          LET ok == floc[t].arg \in Registered /\ unlinked
          IN /\ files' = IF ok THEN [files EXCEPT ![floc[t].arg] = "deleted"] ELSE files
             /\ floc' = [floc EXCEPT
                            ![t].ret = <<IF ok THEN 1 ELSE 0>>,
                            ![t].todo = @ \ {floc[t].arg},
                            ![t].deleted_count = IF floc[t].in_cleanup /\ ok THEN @ + 1 ELSE @]
    /\ fpc' = [fpc EXCEPT ![t] = IF floc[t].in_cleanup THEN "cleanup_loop" ELSE "idle"]
    /\ UNCHANGED <<file_lock, zvars>>

\* cleanup_old_files lines 373-384: the lock is taken and the ids to delete
\* are collected from _files
CleanupCollect(t) ==
    /\ fpc[t] = "cleanup_lock"
    /\ CanAcquire(t)
    /\ file_lock' = t
    /\ floc' = [floc EXCEPT ![t].todo = @ \cap Registered, ![t].in_cleanup = TRUE]
    /\ fpc' = [fpc EXCEPT ![t] = "cleanup_loop"]
    /\ UNCHANGED <<files, zvars>>

\* cleanup_old_files lines 387-389: the next id of the loop is handed to
\* self.delete_file, still inside `with self._lock`
CleanupNext(t) ==
    /\ fpc[t] = "cleanup_loop"
    /\ floc[t].todo # {}
    /\ floc' = [floc EXCEPT ![t].arg = CHOOSE f \in floc[t].todo :
                                          \A g \in floc[t].todo : f <= g]
    /\ fpc' = [fpc EXCEPT ![t] = "delete_lock"]
    /\ UNCHANGED <<files, file_lock, zvars>>

\* cleanup_old_files lines 389-396: the loop is over, the lock is released
\* and the result is returned
CleanupReturn(t) ==
    /\ fpc[t] = "cleanup_loop"
    /\ floc[t].todo = {}
    /\ file_lock' = "free"
    /\ floc' = [floc EXCEPT ![t].ret = <<floc[t].deleted_count>>, ![t].in_cleanup = FALSE]
    /\ fpc' = [fpc EXCEPT ![t] = "idle"]
    /\ UNCHANGED <<files, zvars>>

FileThreadStep(t) ==
    \/ Call(t)
    \/ RegisterFile(t)
    \/ GetAllFiles(t)
    \/ DeleteFile(t)
    \/ CleanupCollect(t)
    \/ CleanupNext(t)
    \/ CleanupReturn(t)
NextOutput ==
    \/ \E f \in 1..MaxFiles : GrowOld(f)
    \/ \E t \in FileThreads : FileThreadStep(t)
\* every thread keeps running, and a thread that finds the lock free again
\* and again gets it in the end
SpecOutput ==
    /\ InitOutput
    /\ [][NextOutput]_vars
    /\ \A t \in FileThreads : SF_vars(FileThreadStep(t))

----------------------------------------------------------------------------
\* Properties of the compiler (SpecCompile).

Plan == engine._compiled_sequence
PlanBlocks == {Plan[i].block : i \in 1..Len(Plan)}
InstanceRefs == {engine.instances[n] : n \in DOMAIN engine.instances}
\* the instance graph set_schema built from the schema (a local of set_schema)
Graph == BuildGraph(engine, schema)
EdgeSet == {Graph.edges[i] : i \in 1..Len(Graph.edges)}
TransfersOf(ref) ==
    UNION {{Plan[i].transfers[j] : j \in 1..Len(Plan[i].transfers)} :
             i \in {x \in 1..Len(Plan) : Plan[x].block = ref}}

\* C7: when the graph of the schema has a cycle, set_schema raises the cycle
\* error and leaves an engine whose plan has one step for each entry of its
\* instances map and no other (plan and instances describe the same schema).
C7_CycleLeavesEngineConsistent ==
    (cstate \in {"compiled", "failed"} /\ find_cycle(Graph.edges))
        => /\ cstate = "failed"
           /\ cerror = "ValueError: Flowchart contains cycles"
           /\ PlanBlocks = InstanceRefs

\* a self-loop was refused, and the failed engine holds instances but no plan
C7_Witness ==
    /\ cstate = "failed"
    /\ \E e \in EdgeSet : e.u = e.v
    /\ InstanceRefs # {}
    /\ Plan = <<>>

\* C8: in a successful compilation, for every edge A->B of the instance
\* graph the step of B comes after the step of A, and every transfer source
\* of a step is the block of a strictly earlier step.
C8_TopologicalOrder ==
    cstate = "compiled"
        => /\ \A e \in EdgeSet :
                /\ \E i, j \in 1..Len(Plan) :
                      /\ Plan[i].block = engine.instances[e.u]
                      /\ Plan[j].block = engine.instances[e.v]
                /\ \A i, j \in 1..Len(Plan) :
                      (Plan[i].block = engine.instances[e.u] /\
                       Plan[j].block = engine.instances[e.v]) => i < j
           /\ \A j \in 1..Len(Plan) : \A k \in 1..Len(Plan[j].transfers) :
                \E i \in 1..(j - 1) : Plan[i].block = Plan[j].transfers[k].src

\* the schema lists B before A, and the plan runs A first
C8_Witness ==
    /\ cstate = "compiled"
    /\ Len(Plan) = 2
    /\ Plan[1].block = InstRef(2)
    /\ Plan[2].block = InstRef(1)
    /\ \E e \in EdgeSet : e.u = 2 /\ e.v = 1

\* the connections of the schema whose two port ids name a port entry (not
\* an option entry) of a node of registered type
NodeOfPort(p_id) ==
    {i \in 1..Len(schema.nodes) :
        /\ schema.nodes[i].type \in DOMAIN engine.block_templates
        /\ \/ \E x \in 1..Len(schema.nodes[i].outputs) : schema.nodes[i].outputs[x].id = p_id
           \/ \E x \in 1..Len(schema.nodes[i].inputs) :
                 /\ schema.nodes[i].inputs[x].id = p_id
                 /\ schema.nodes[i].inputs[x].key \notin
                      DOMAIN engine.heap[engine.block_templates[schema.nodes[i].type]]._options}
ParallelPairs ==
    {<<x, y>> \in (1..Len(schema.connections)) \X (1..Len(schema.connections)) :
        /\ x < y
        /\ NodeOfPort(schema.connections[x].from) # {}
        /\ NodeOfPort(schema.connections[x].from) = NodeOfPort(schema.connections[y].from)
        /\ NodeOfPort(schema.connections[x].to) # {}
        /\ NodeOfPort(schema.connections[x].to) = NodeOfPort(schema.connections[y].to)
        /\ <<schema.connections[x].from, schema.connections[x].to>> #
           <<schema.connections[y].from, schema.connections[y].to>>}
TransferOfConn(c) ==
    [src |-> InstRef(schema.nodes[CHOOSE i \in NodeOfPort(c.from) : TRUE].id),
     out_p |-> c.from[2], in_p |-> c.to[2]]
DestOfConn(c) == InstRef(schema.nodes[CHOOSE i \in NodeOfPort(c.to) : TRUE].id)

\* after a run without failure the destination input of connection c holds
\* the source output of c
HoldsSourceOutput(c) ==
    engine.heap[DestOfConn(c)]._inputs[c.to[2]] =
        engine.heap[TransferOfConn(c).src]._outputs[c.from[2]]
\* connection x is the only resolved connection that ends at its input port
SoleWriter(x) ==
    \A z \in 1..Len(schema.connections) :
        (NodeOfPort(schema.connections[z].from) # {} /\
         schema.connections[z].to = schema.connections[x].to)
            => schema.connections[z].from = schema.connections[x].from

C10_TemplatesUnchanged ==
    \A i \in 1..Len(Library) :
        Library[i].name \in DOMAIN engine.block_templates
            => engine.heap[engine.block_templates[Library[i].name]] = Library[i]

\* a schema option was overlaid (7 clamped to 5) on an instance
C10_Witness ==
    /\ cstate = "compiled"
    /\ \E n \in DOMAIN engine.instances :
          engine.heap[engine.instances[n]]._options["k"].value = 5
    /\ engine.heap[TplRef("Pair")]._options["k"].value = 1


----------------------------------------------------------------------------
\* Properties of the executor (SpecCompile, SpecExec, SpecExecFair, SpecCancel).

Outputs(eng) == [n \in DOMAIN eng.instances |-> eng.heap[eng.instances[n]]._outputs]
IdOf(eng, ref) == eng.heap[ref].instance_id

C12_ReadsSameRunValue ==
    [][\A n \in DOMAIN tasks :
          (tasks[n] = "waiting" /\ tasks'[n] = "computing") =>
              \A d \in dependency_ids(engine, n) : tasks[d] = "done_ok"]_vars
C12_Witness ==
    \E n \in DOMAIN tasks :
        /\ tasks[n] = "computing"
        /\ rstate = "returned"
        /\ \E i \in 1..Len(StepOf(engine, n).transfers) :
              LET t == StepOf(engine, n).transfers[i]
              IN /\ tasks[IdOf(engine, t.src)] = "done_err"
                 /\ engine.heap[StepOf(engine, n).block]._inputs[t.in_p] # Null

\* C13: under fair scheduling the task of every node of the plan eventually
\* sets its completion event, whether its compute succeeds or raises.
C13_SignalsEventuallySet ==
    (astate = "running") ~> (\A n \in DOMAIN tasks : done_events[n])
C13_Witness ==
    \E n, m \in DOMAIN tasks :
        /\ tasks[n] = "done_err"
        /\ n \in dependency_ids(engine, m)
        /\ tasks[m] \in DoneStates
        /\ done_events[m]

\* C14: when async_run has returned, every node task of the run has ended:
\* none is waiting, copying or computing.
C14_ReturnsWhenAllDone ==
    astate = "returned" => \A n \in DOMAIN tasks : tasks[n] \in DoneStates
C14_Witness ==
    /\ astate = "running"
    /\ \E n, m \in DOMAIN tasks : tasks[n] = "done_err" /\ tasks[m] = "waiting"

\* C15: a run or async_run in which a compute failed does not return
\* normally to its caller.
C15_FailureReachesCaller ==
    /\ rstate = "returned" => rfailed = {}
    /\ astate = "returned" => \A n \in DOMAIN tasks : tasks[n] # "done_err"
C15_Witness ==
    /\ rstate = "returned" /\ rfailed # {}
    /\ astate = "running" /\ \E n \in DOMAIN tasks : tasks[n] = "done_err"

\* C16: in run, once the compute of a step has failed, the blocks of all
\* later steps are exactly as they were before the run (no transfer into
\* them, no compute).
C16_FailureStopsRun ==
    [][(rstate = "idle" /\ rstate' = "returned") =>
          \A i \in 1..Len(Plan) :
              (\E j \in 1..(i - 1) : IdOf(engine, Plan[j].block) \in rfailed') =>
                  engine'.heap[Plan[i].block] = engine.heap[Plan[i].block]]_vars
C16_Witness ==
    /\ rstate = "returned"
    /\ \E i, j \in 1..Len(Plan) :
          /\ i < j
          /\ IdOf(engine, Plan[i].block) \in rfailed
          /\ \E k \in 1..Len(Plan[j].transfers) : Plan[j].transfers[k].src = Plan[i].block

\* C17: once a running async_run has been cancelled, the completion event of
\* every node is set.
C17_CancelLeavesNoSignalUnset ==
    astate = "cancelled" => \A n \in DOMAIN done_events : done_events[n]
C17_Witness ==
    /\ astate = "cancelled"
    /\ \E n \in DOMAIN tasks : tasks[n] = "cancelled"
    /\ \E n \in DOMAIN tasks : tasks[n] = "detached"

----------------------------------------------------------------------------
\* Properties of the EngineManager (SpecCoop, SpecMgr).

Range(q) == {q[i] : i \in 1..Len(q)}
EngineOf(c) == objs[held[c]].eng
InstancesOf(eng) == {eng.instances[n] : n \in DOMAIN eng.instances}
\* between the return of enter and the end of exit
HoldingStates == {"holding", "ran", "return_instance"}
\* a compilation is done and its stores are under way
CompileSection == {"store_bp", "store_pool"}
PortsOf(blk) == {blk._inputs[n] : n \in DOMAIN blk._inputs}
                  \cup {blk._outputs[n] : n \in DOMAIN blk._outputs}
CompiledEngines ==
    [k \in Keys |->
        set_schema(register_blocks(NewEngine, Library), ManagedSchema(k[2])).engine]
Compiled(k) == CompiledEngines[k]

C2_ExclusiveOwnership ==
    \A c1 \in Callers :
        pc[c1] \in HoldingStates =>
            /\ \A c2 \in Callers \ {c1} :
                  pc[c2] \in HoldingStates => held[c2] # held[c1]
            /\ \A k \in DOMAIN pools : held[c1] \notin Range(pools[k])
C2_Witness ==
    \E c1, c2 \in Callers :
        /\ c1 # c2
        /\ req[c1] = req[c2]
        /\ pc[c1] \in HoldingStates /\ pc[c2] \in HoldingStates
        /\ from_pool[c1]

\* C3: for a mix of acquire and acquire_sync calls, a key is compiled at most
\* once while it stays in the cache: a blueprint in the cache is never
\* replaced by a second compilation of the same key.
C3_CompiledAtMostOnce ==
    \A k \in Keys : compiles[k] <= evictions[k] + 1
C3_Witness ==
    \E a \in CoopCallers, t \in ThreadCallers :
        /\ req[a] = req[t]
        /\ pc[a] \in CompileSection /\ pc[t] \in CompileSection

\* C4: every step that changes the blueprint map, the pools map or a pool
\* queue is taken while _lock is held.
C4_MutationsUnderLock ==
    [][(blueprints' # blueprints \/ pools' # pools) => lock # "free"]_vars
C4_Witness ==
    \E a \in CoopCallers : pc[a] = "store_pool" /\ lock = "free"

\* C5: no pool is ever longer than the cap; exit appends the engine when the
\* pool is below the cap and otherwise leaves the pool as it was.
C5_PoolBound ==
    /\ [](\A k \in DOMAIN pools : Len(pools[k]) <= PoolMax)
    /\ [][\A c \in Callers :
            (pc[c] = "return_instance" /\ pc'[c] = "finished") =>
                IF Key(c) \in DOMAIN pools /\ Len(pools[Key(c)]) < PoolMax
                THEN pools' = [pools EXCEPT ![Key(c)] = Append(@, held[c])]
                ELSE pools' = pools]_vars
C5_Witness ==
    \E c \in Callers :
        /\ outcome[c] = "discarded"
        /\ Key(c) \in DOMAIN pools
        /\ Len(pools[Key(c)]) = PoolMax

\* C6: when the exit of a caller has ended, the engine it held is back in its
\* reset state: exit ended in the pool branch (pooled, or discarded at the
\* cap), every input and output port of every instance is null and every
\* option is the blueprint's.
C6_ExitResetsEngine ==
    \A c \in Callers :
        (pc[c] = "finished" /\ held[c] \in DOMAIN objs) =>
            /\ outcome[c] \in {"pooled", "discarded"}
            /\ \A r \in InstancesOf(EngineOf(c)) :
                  /\ PortsOf(EngineOf(c).heap[r]) \subseteq {Null}
                  /\ EngineOf(c).heap[r]._options = Compiled(Key(c)).heap[r]._options
C6_Witness ==
    \E c \in Callers :
        /\ pc[c] = "ran"
        /\ \E r \in InstancesOf(EngineOf(c)) : PortsOf(EngineOf(c).heap[r]) # {Null}


\* C18: a caller whose key has left the cache while it holds an engine ends
\* its exit without error, the engine going to the pool or being discarded.
C18_EvictionKeepsCheckedOutUsable ==
    [][\A c \in Callers :
          (pc[c] \in HoldingStates /\ Key(c) \notin CachedKeys /\ pc'[c] = "finished") =>
              outcome'[c] \in {"pooled", "discarded"}]_vars
C18_Witness ==
    \E c \in Callers :
        /\ pc[c] = "ran"
        /\ Key(c) \notin CachedKeys
        /\ DOMAIN EngineOf(c).instances # {}

\* C19: the blueprint of a cached key is held by no caller and is in no
\* pool, and it is equal to the engine the compiler built: running engines
\* that were checked out has changed none of its buffers or options.
C19_BlueprintIsPrototype ==
    \A i \in 1..Len(blueprints) :
        /\ \A c \in Callers : pc[c] \in HoldingStates => held[c] # blueprints[i].bp
        /\ \A k \in DOMAIN pools : blueprints[i].bp \notin Range(pools[k])
        /\ objs[blueprints[i].bp].eng = Compiled(blueprints[i].key)
C19_Witness ==
    \E c \in Callers :
        /\ pc[c] = "ran"
        /\ ~ from_pool[c]
        /\ Key(c) \in CachedKeys
        /\ \E r \in InstancesOf(EngineOf(c)) : PortsOf(EngineOf(c).heap[r]) # {Null}

\* C20: when one caller executes the same schema again and again, the key is
\* compiled once, its pool never holds more than one engine, and every scope
\* after the first gets the engine object of the previous scope, all of its
\* port buffers null.
C20_SequentialReuse ==
    /\ [](\A k \in Keys : compiles[k] <= 1 /\ (k \in DOMAIN pools => Len(pools[k]) <= 1))
    /\ [][(pc[SeqCaller] = "get_instance" /\ pc'[SeqCaller] = "holding"
             /\ held[SeqCaller] # 0) =>
              /\ held'[SeqCaller] = held[SeqCaller]
              /\ \A r \in InstancesOf(objs'[held'[SeqCaller]].eng) :
                    PortsOf(objs'[held'[SeqCaller]].eng.heap[r]) \subseteq {Null}]_vars
C20_Witness ==
    /\ pc[SeqCaller] = "ran"
    /\ rounds[SeqCaller] = 2
    /\ compiles[Key(SeqCaller)] = 1
    /\ DOMAIN EngineOf(SeqCaller).instances # {}

\* C21: an acquire or acquire_sync call that reaches the compilation with a
\* business that is not registered ends with the unknown-business error; that
\* step changes neither the blueprints, nor the pools, nor the libraries, and
\* after it the caller holds neither of the two locks.
C21_UnknownBusinessFails ==
    [][\A c \in Callers :
          (pc[c] = "locked" /\ pc'[c] # "locked" /\ req[c][1] \notin DOMAIN libraries)
          => /\ pc'[c] = "finished"
             /\ outcome'[c] = UnknownBusiness
             /\ blueprints' = blueprints
             /\ pools' = pools
             /\ libraries' = libraries
             /\ lock' # c
             /\ async_lock' # c]_vars
C21_Witness ==
    \E c \in CoopCallers, t \in ThreadCallers :
        /\ pc[c] = "finished" /\ outcome[c] = UnknownBusiness
        /\ pc[t] = "finished" /\ outcome[t] = UnknownBusiness
        /\ DOMAIN libraries = {}
        /\ blueprints = <<>>
        /\ lock = "free" /\ async_lock = "free"

\* C22: a key whose schema does not compile is never in the blueprint cache
\* and never has a pool; the call whose compilation fails ends with the error
\* of set_schema, stores nothing and leaves the lock it took for the
\* compilation free; a later call for the same key goes to the compilation
\* again.
UncompilableKeys ==
    {k \in Keys :
        set_schema(register_blocks(NewEngine, Library), ManagedSchema(k[2])).error # ""}
FailsToCompile(k) == k \in UncompilableKeys
C22_CompileErrorReachesCaller ==
    [][\A c \in Callers :
          /\ (pc[c] = "locked" /\ pc'[c] # "locked" /\ req[c][1] \in DOMAIN libraries
                /\ FailsToCompile(Key(c)))
             => /\ pc'[c] = "finished"
                /\ outcome'[c] = "ValueError: Flowchart contains cycles"
                /\ blueprints' = blueprints
                /\ pools' = pools
                /\ CompileLock(c)' # c
          /\ (pc[c] \in {"idle", "finished"} /\ pc'[c] # pc[c]
                /\ FailsToCompile(<<req'[c][1], req'[c][2]>>))
             => pc'[c] = "take_lock"
          /\ \A k \in Keys :
                FailsToCompile(k) => (k \notin CachedKeys /\ k \notin DOMAIN pools)']_vars
C22_Witness ==
    \E c \in CoopCallers, d \in CoopCallers :
        /\ c # d
        /\ Key(c) = Key(d)
        /\ pc[c] = "finished" /\ outcome[c] = "ValueError: Flowchart contains cycles"
        /\ pc[d] = "finished" /\ outcome[d] = "ValueError: Flowchart contains cycles"
        /\ async_lock = "free"

\* C23: a schema with a node of a type that is not registered compiles as the
\* schema without that node and without the connections on its ports does: it
\* fails only when that smaller schema has a cycle, and when it succeeds the
\* plan has exactly one step for each node of a known type, none for the
\* unknown node, and no transfer from or to it.
KnownNodes ==
    {schema.nodes[i].id : i \in {x \in 1..Len(schema.nodes) :
                                    schema.nodes[x].type \in DOMAIN engine.block_templates}}
UnknownNodes == {schema.nodes[i].id : i \in 1..Len(schema.nodes)} \ KnownNodes
PortIdsOf(node_data) ==
    {node_data.inputs[i].id : i \in 1..Len(node_data.inputs)}
    \cup {node_data.outputs[i].id : i \in 1..Len(node_data.outputs)}
UnknownPorts ==
    UNION {PortIdsOf(schema.nodes[i]) :
             i \in {x \in 1..Len(schema.nodes) : schema.nodes[x].id \in UnknownNodes}}
WithoutUnknown ==
    [nodes |-> SelectSeq(schema.nodes, LAMBDA nd : nd.id \in KnownNodes),
     connections |-> SelectSeq(schema.connections,
                        LAMBDA cn : cn.from \notin UnknownPorts /\ cn.to \notin UnknownPorts)]
C23_UnknownTypeSkipped ==
    (cstate \in {"compiled", "failed"} /\ UnknownNodes # {})
        => LET small == set_schema(register_blocks(NewEngine, Library), WithoutUnknown)
           IN /\ cerror = small.error
              /\ DOMAIN engine.instances = KnownNodes
              /\ \A e \in EdgeSet : e.u \in KnownNodes /\ e.v \in KnownNodes
              /\ cstate = "compiled"
                   => /\ Plan = small.engine._compiled_sequence
                      /\ \A n \in KnownNodes :
                            Cardinality({i \in 1..Len(Plan) : Plan[i].block = InstRef(n)}) = 1
                      /\ Len(Plan) = Cardinality(KnownNodes)
                      /\ \A i \in 1..Len(Plan) : \A j \in 1..Len(Plan[i].transfers) :
                            Plan[i].transfers[j].src \in {InstRef(n) : n \in KnownNodes}
\* an unknown node wired to and from a known node: one step, no transfer
C23_Witness ==
    /\ cstate = "compiled"
    /\ KnownNodes # {}
    /\ \E i \in 1..Len(schema.connections) :
          /\ schema.connections[i].from \in UnknownPorts
          /\ schema.connections[i].to \in DOMAIN Graph.port_to_node
    /\ \E i \in 1..Len(schema.connections) :
          /\ schema.connections[i].to \in UnknownPorts
          /\ schema.connections[i].from \in DOMAIN Graph.port_to_node
    /\ Len(Plan) = Cardinality(KnownNodes)

\* C24: the edges of the graph are those of the connections whose two port
\* ids each name a registered port of an instantiated node; the schema
\* compiles exactly as it does without the other connections (same error,
\* same plan), and every transfer of the plan is the transfer of such a
\* connection, one transfer per connection.
Resolved(conn) == NodeOfPort(conn.from) # {} /\ NodeOfPort(conn.to) # {}
ResolvedConns == SelectSeq(schema.connections, Resolved)
TransferCount == SeqFold(LAMBDA acc, step : acc + Len(step.transfers), 0, Plan)
C24_DanglingConnectionDropped ==
    cstate \in {"compiled", "failed"}
        => LET clean == set_schema(register_blocks(NewEngine, Library),
                                   [schema EXCEPT !.connections = ResolvedConns])
           IN /\ Len(Graph.edges) = Len(ResolvedConns)
              /\ cerror = clean.error
              /\ cstate = "compiled"
                   => /\ Plan = clean.engine._compiled_sequence
                      /\ TransferCount = Len(ResolvedConns)
                      /\ \A i \in 1..Len(Plan) : \A j \in 1..Len(Plan[i].transfers) :
                            \E x \in 1..Len(schema.connections) :
                               /\ Resolved(schema.connections[x])
                               /\ TransferOfConn(schema.connections[x]) = Plan[i].transfers[j]
                               /\ DestOfConn(schema.connections[x]) = Plan[i].block
\* a compiled schema with a connection from nowhere and one to nowhere on
\* the ports of an instantiated node: a plan of one step, no transfer
C24_Witness ==
    /\ cstate = "compiled"
    /\ \E i \in 1..Len(schema.connections) :
          /\ NodeOfPort(schema.connections[i].from) = {}
          /\ NodeOfPort(schema.connections[i].to) # {}
    /\ \E i \in 1..Len(schema.connections) :
          /\ NodeOfPort(schema.connections[i].to) = {}
          /\ NodeOfPort(schema.connections[i].from) # {}
    /\ Len(Plan) = 1
    /\ TransferCount = 0

\* C25: after set_option("x", v) on a numeric option (Integer, Number,
\* Slider) the stored value is min when min is set and v is below it, max
\* when max is set and v is above it, and v otherwise; an option of another
\* kind stores v itself.  The kind and the limits of the option stay as they
\* were.
C25_OptionClamped ==
    [][(oset' # <<>> /\ oset'[1] = "x")
          => LET opt == oblk._options["x"]
                 v == oset'[2]
                 stored == oblk'._options["x"].value
             IN /\ opt.type \in NumericTypes
                     => stored = IF opt.min # NoneV /\ v < opt.min[1] THEN opt.min[1]
                                 ELSE IF opt.max # NoneV /\ v > opt.max[1] THEN opt.max[1]
                                 ELSE v
                /\ opt.type \notin NumericTypes => stored = v
                /\ oblk'._options["x"].type = opt.type
                /\ oblk'._options["x"].min = opt.min
                /\ oblk'._options["x"].max = opt.max]_vars
\* a Slider with both limits was handed a value above its max and has stored
\* the max
C25_Witness ==
    /\ oset # <<>>
    /\ oset[1] = "x"
    /\ oblk._options["x"].type = "Slider"
    /\ oblk._options["x"].min # NoneV
    /\ oblk._options["x"].max # NoneV
    /\ oset[2] > oblk._options["x"].max[1]
    /\ oblk._options["x"].value = oblk._options["x"].max[1]

\* C26: the key of (business_id, document) is the key of every document
\* that differs from it only in the order of the keys of its objects, at any
\* level, under the same business_id, and it is not the key of the same
\* document under another business_id.
RECURSIVE SameUpToKeyOrder(_, _)
SameUpToKeyOrder(d1, d2) ==
    /\ d1.t = d2.t
    /\ d1.v = d2.v
    /\ Len(d1.items) = Len(d2.items)
    /\ d1.t = "arr" => \A i \in 1..Len(d1.items) : SameUpToKeyOrder(d1.items[i], d2.items[i])
    /\ d1.t = "obj" =>
          /\ {d1.keys[i] : i \in 1..Len(d1.keys)} = {d2.keys[i] : i \in 1..Len(d2.keys)}
          /\ \A i \in 1..Len(d1.keys) :
                SameUpToKeyOrder(d1.items[i], ValueAt(d2, d1.keys[i]))
C26_KeyOfCanonicalSchema ==
    hkey # <<>>
        => \A b2 \in HashBusinesses, d2 \in Docs :
              /\ (b2 = hargs[1] /\ SameUpToKeyOrder(hargs[2], d2))
                    => get_hash_of(b2, d2) = hkey[1]
              /\ (b2 # hargs[1] /\ d2 = hargs[2])
                    => get_hash_of(b2, d2) # hkey[1]
\* a hashed document with two keys at the top and two keys in a nested
\* object, and another document that lists the nested keys the other way round
C26_Witness ==
    /\ hkey # <<>>
    /\ Len(hargs[2].keys) = 2
    /\ \E d2 \in Docs :
          /\ d2 # hargs[2]
          /\ d2.keys = hargs[2].keys
          /\ SameUpToKeyOrder(hargs[2], d2)
          /\ get_hash_of(hargs[1], d2) = hkey[1]

\* C27: when no compute raises, run() of the counter-based scheduler
\* eventually returns with every node of the (acyclic) graph executed once.
C27_SchedulerTerminates ==
    (sfail = {}) => <>(smain = "returned" /\ \A n \in sgraph.nodes : executed[n] = 1)
\* two connections from one node to another: the target's counter started
\* at 2 and was decremented once, every submitted task is over, nothing
\* failed, and run() waits for done_event
C27_Witness ==
    /\ sfail = {}
    /\ smain = "waiting"
    /\ ~ done_event
    /\ ~ failed
    /\ \A n \in DOMAIN task : task[n].pc \in {"none", "done"}
    /\ \E n \in DOMAIN task :
          /\ task[n].pc = "none"
          /\ sgraph.initial_in_degree[n] = 2
          /\ in_degree[n] = 1
          /\ \A p \in DOMAIN task : n \in {sgraph.adjacency[p][i] : i \in 1..Len(sgraph.adjacency[p])}
                                        => task[p].pc = "done"

\* C28: a counter of ctx['in_degree'] changes only in a step of the task
\* that holds _sync_lock; a task is submitted for a node only in a step after
\* which the node's counter is zero and when every predecessor of the node
\* has computed and propagated; and no node is submitted twice.
SchedPreds(m) ==
    {p \in sgraph.nodes : \E i \in 1..Len(sgraph.adjacency[p]) : sgraph.adjacency[p][i] = m}
C28_CountersUnderLock ==
    [][IF smain = "idle"
       THEN \A m \in sgraph.nodes :
               submitted'[m] = IF sgraph.initial_in_degree[m] = 0 THEN 1 ELSE 0
       ELSE
         \A m \in sgraph.nodes :
            /\ in_degree'[m] # in_degree[m]
                  => \E n \in sgraph.nodes :
                        /\ sync_lock = n /\ sync_lock' = n
                        /\ task[n].pc = "loop" /\ task'[n].pc = "check"
                        /\ task'[n].cur = m
                        /\ in_degree'[m] = in_degree[m] - 1
            /\ submitted'[m] # submitted[m]
                  => /\ in_degree'[m] = 0
                     /\ submitted'[m] = 1
                     /\ \A p \in SchedPreds(m) :
                           executed[p] = 1 /\ task[p].pc \in {"check", "finally", "done"}]_vars
\* a node with two predecessors: one has decremented the node's counter and
\* holds the lock, the other has computed and waits for the lock
C28_Witness ==
    \E m \in sgraph.nodes, p1 \in sgraph.nodes, p2 \in sgraph.nodes :
        /\ p1 # p2
        /\ {p1, p2} \subseteq SchedPreds(m)
        /\ sync_lock = p1
        /\ task[p1].pc = "check" /\ task[p1].cur = m
        /\ in_degree[m] = 1
        /\ task[p2].pc = "want_lock"

\* C29: whatever the interleaving of the threads, the constructor of the
\* decorated class runs at most once, exactly once as soon as a call has
\* returned, and every call of every thread returns the object that one
\* construction made.
C29_OneInstance ==
    /\ constructed <= 1
    /\ \A t \in SingletonThreads : \A i \in 1..Len(gret[t]) :
          /\ constructed = 1
          /\ gret[t][i] = 1
          /\ gret[t][i] = single
\* three threads passed the first check before anything was stored; one has
\* constructed and returned, called again and got the same object, and
\* another now holds the lock and is at the second check
C29_Witness ==
    \E t1 \in SingletonThreads, t2 \in SingletonThreads, t3 \in SingletonThreads :
        /\ Len(gret[t1]) = 2
        /\ gpc[t2] = "check2"
        /\ gpc[t3] = "lock"
        /\ constructed = 1

\* C30: a caller whose acquire has returned a scope gets, when it enters the
\* scope, an engine of the key it asked for, whatever happened to the
\* blueprint and the pool of that key since acquire returned.
C30_EnterYieldsEngine ==
    [][\A c \in Callers :
          (pc[c] = "get_instance" /\ pc'[c] # "get_instance")
          => /\ pc'[c] = "holding"
             /\ objs'[held'[c]].key = Key(c)]_vars
\* the key was compiled, its blueprint was evicted by the compilation of
\* another key while its pool was empty, and enter ended with KeyError
C30_Witness ==
    \E c \in Callers :
        /\ pc[c] = "finished"
        /\ outcome[c] = "KeyError"
        /\ Key(c) \in DOMAIN pools
        /\ pools[Key(c)] = <<>>
        /\ Key(c) \notin CachedKeys
        /\ evictions[Key(c)] = 1

\* C32: while no compilation is between its two stores, the keys that have a
\* pool are exactly the keys that have a blueprint, so there are never more
\* pools than the blueprint cache can hold.
C32_PoolsFollowBlueprints ==
    (\A c \in Callers : pc[c] \notin CompileSection)
    => /\ DOMAIN pools = CachedKeys
       /\ Cardinality(DOMAIN pools) <= BlueprintSize
\* two keys were compiled one after the other: the second compilation evicted
\* the blueprint of the first, whose pool is still there
C32_Witness ==
    /\ \A c \in Callers : pc[c] \notin CompileSection
    /\ Cardinality(DOMAIN pools) = BlueprintSize + 1
    /\ Cardinality(CachedKeys) = BlueprintSize
    /\ \E k \in DOMAIN pools : k \notin CachedKeys /\ evictions[k] = 1

\* the instances the plan of an engine refers to: step blocks and transfer
\* sources
PlanRefsOf(eng) ==
    LET plan == eng._compiled_sequence
    IN {plan[i].block : i \in 1..Len(plan)}
         \cup UNION {{plan[i].transfers[j].src : j \in 1..Len(plan[i].transfers)} :
                       i \in 1..Len(plan)}
BlueprintIds == {blueprints[i].bp : i \in 1..Len(blueprints)} \cup {bp[c] : c \in Callers}

\* C34: an engine cloned from a blueprint is an object of its own (not the
\* blueprint, not the engine of another caller), the plan of the clone refers
\* to instances of the clone's own instances map only, and a step in which a
\* caller runs or resets its engine changes no other engine object.
C34_CloneIsSelfContained ==
    /\ [](\A c \in Callers :
            (pc[c] \in HoldingStates /\ ~ from_pool[c]) =>
                /\ held[c] \notin BlueprintIds
                /\ \A c2 \in Callers \ {c} : pc[c2] \in HoldingStates => held[c2] # held[c]
                /\ PlanRefsOf(EngineOf(c)) \subseteq InstancesOf(EngineOf(c))
                /\ InstancesOf(EngineOf(c)) \subseteq DOMAIN EngineOf(c).heap)
    /\ [][\A c \in Callers :
            (pc[c] \in {"holding", "ran"} /\ pc'[c] # pc[c]) =>
                \A id \in DOMAIN objs : id # held[c] => (id \in DOMAIN objs' /\ objs'[id] = objs[id])]_vars
\* one caller has run its clone, whose plan has a transfer and whose buffers
\* are no longer null, while another caller holds a clone of the same key
\* that it has not run yet and the blueprint is still cached
C34_Witness ==
    \E c1, c2 \in Callers :
        /\ c1 # c2 /\ Key(c1) = Key(c2) /\ Key(c1) \in CachedKeys
        /\ pc[c1] = "ran" /\ pc[c2] = "holding"
        /\ ~ from_pool[c1] /\ ~ from_pool[c2]
        /\ \E r \in PlanRefsOf(EngineOf(c1)) : PortsOf(EngineOf(c1).heap[r]) # {Null}
        /\ \E i \in 1..Len(EngineOf(c1)._compiled_sequence) :
              EngineOf(c1)._compiled_sequence[i].transfers # <<>>
        /\ EngineOf(c2) = objs[BlueprintOf(Key(c2))].eng

NoRepeat(q) == \A i, j \in 1..Len(q) : q[i] = q[j] => i = j

\* C36 as stated: after a successful set_schema the plan has one step per
\* instance, and every run calls the compute of every instance exactly once.
C36_AsStated ==
    (cstate = "compiled" /\ rstate = "returned") =>
        /\ NoRepeat(rcalls)
        /\ Range(rcalls) = DOMAIN engine.instances
\* C36: after a successful set_schema the blocks of the plan steps are
\* pairwise distinct and are exactly the values of the instances map; run
\* calls the compute of no instance twice, and of every instance once when
\* no compute raises; async_run creates one task and one event per instance,
\* and the compute of a task is started once.
C36_OneStepPerInstance ==
    /\ [](cstate = "compiled" =>
            /\ \A i, j \in 1..Len(Plan) : Plan[i].block = Plan[j].block => i = j
            /\ PlanBlocks = InstanceRefs
            /\ Len(Plan) = Cardinality(DOMAIN engine.instances)
            /\ \A n \in DOMAIN engine.instances :
                  engine.heap[engine.instances[n]].instance_id = n)
    /\ []((cstate = "compiled" /\ rstate = "returned") =>
            /\ NoRepeat(rcalls)
            /\ Range(rcalls) \subseteq DOMAIN engine.instances
            /\ rfailed = {} => Range(rcalls) = DOMAIN engine.instances)
    /\ []((cstate = "compiled" /\ astate # "idle") =>
            /\ DOMAIN tasks = DOMAIN engine.instances
            /\ DOMAIN done_events = DOMAIN engine.instances)
    /\ [][\A n \in DOMAIN tasks :
            /\ (tasks[n] # "computing" /\ tasks'[n] = "computing") => tasks[n] = "waiting"
            /\ tasks[n] \in DoneStates => tasks'[n] = tasks[n]]_vars
\* a plan of three steps in which the middle one raised: run called two
\* computes; the async_run that followed has a task and an event for each of
\* the three instances
C36_Witness ==
    /\ cstate = "compiled"
    /\ rstate = "returned"
    /\ Len(Plan) = 3
    /\ Len(rcalls) = 2
    /\ rfailed # {}
    /\ astate = "returned"
    /\ Cardinality(DOMAIN tasks) = 3

\* the template blocks an engine was compiled from
TemplatesOf(eng) == [n \in DOMAIN eng.block_templates |-> eng.heap[eng.block_templates[n]]]

\* C33: the engine a caller obtains when it enters its scope was compiled
\* from the library its business has at that time: after a replacement of
\* the library no engine built from the earlier library is handed out.
C33_EnginesOfCurrentLibrary ==
    [][\A c \in Callers :
          (pc[c] = "get_instance" /\ pc'[c] = "holding") =>
              TemplatesOf(objs'[held'[c]].eng)
                = TemplatesOf(register_blocks(NewEngine, LibraryOf(req[c][1])))]_vars
\* the key was compiled from the first library, the library was replaced,
\* and a later acquire of the same key found the blueprint cached: the caller
\* holds a copy of the blueprint of the first library
C33_Witness ==
    \E c \in CoopCallers :
        /\ pc[c] = "holding"
        /\ compiles[Key(c)] = 1
        /\ rounds[c] = 2
        /\ libraries[req[c][1]] = Library2
        /\ DOMAIN EngineOf(c).instances # {}
        /\ TemplatesOf(EngineOf(c)) = TemplatesOf(register_blocks(NewEngine, Library))

\* C38: when an acquire finds its key in the cache (at its first check, or
\* at the check it repeats under the lock), the blueprint of that key is the
\* most recently used entry of the cache when acquire returns.
C38_AcquireMarksRecent ==
    [][\A c \in Callers :
          (pc[c] \in {"idle", "finished", "locked"} /\ pc'[c] = "acquired") =>
              blueprints'[Len(blueprints')].key = <<req'[c][1], req'[c][2]>>]_vars
\* two blueprints are cached; the caller whose acquire has just returned
\* asked for the one that is still next to be evicted, and the engine of that
\* key has been pooled and served from the pool before
C38_Witness ==
    \E c \in CoopCallers :
        /\ pc[c] = "acquired"
        /\ rounds[c] = 2
        /\ Len(blueprints) = LruSize
        /\ blueprints[1].key = Key(c)
        /\ \A k \in Keys : compiles[k] <= 1 /\ evictions[k] = 0
        /\ pools[Key(c)] # <<>>

\* every input and output port buffer of every instance of the engine is null
BuffersNull(eng) == \A r \in InstancesOf(eng) : PortsOf(eng.heap[r]) = {Null}

C35_TransfersFollowDirection ==
    cstate = "compiled" =>
        /\ \A i \in 1..Len(Plan) : \A j \in 1..Len(Plan[i].transfers) :
              LET t == Plan[i].transfers[j]
              IN /\ t.out_p \in DOMAIN engine.heap[t.src]._outputs
                 /\ t.in_p \in DOMAIN engine.heap[Plan[i].block]._inputs
        /\ TransferCount =
              Cardinality({i \in 1..Len(schema.connections) :
                              /\ schema.connections[i].from[2] \in {"O", "P"}
                              /\ schema.connections[i].to[2] \in {"A", "B"}})
\* a connection drawn from the input A of node 1 to the output O of node 2
\* has become a transfer that reads "A" from the outputs of node 1 and writes
\* the input "O" of node 2; after a run node 2 has an input named O
C35_Witness ==
    /\ cstate = "compiled"
    /\ rstate = "returned"
    /\ rfailed = {}
    /\ \E i \in 1..Len(Plan) : \E j \in 1..Len(Plan[i].transfers) :
          LET t == Plan[i].transfers[j]
          IN /\ t.out_p = "A"
             /\ t.in_p = "O"
             /\ "O" \in DOMAIN engine.heap[Plan[i].block]._inputs
             /\ engine.heap[Plan[i].block]._inputs["O"] = Null

\* the input entries of a node that are named after an option of the node's
\* template and carry no value
ValuelessOptionEntries(node_data) ==
    {j \in 1..Len(node_data.inputs) :
        /\ "value" \notin DOMAIN node_data.inputs[j]
        /\ node_data.type \in DOMAIN engine.block_templates
        /\ node_data.inputs[j].key
             \in DOMAIN engine.heap[engine.block_templates[node_data.type]]._options}

\* C39: when set_schema has ended, it has not failed on account of an option
\* entry without a value, and every instance whose node carries such an entry
\* has that option at the default of its template.
C39_ValuelessEntryKeepsDefault ==
    cstate \in {"compiled", "failed"} =>
        \A i \in 1..Len(schema.nodes) : \A j \in ValuelessOptionEntries(schema.nodes[i]) :
            LET key == schema.nodes[i].inputs[j].key
                tpl == engine.heap[engine.block_templates[schema.nodes[i].type]]
            IN /\ cerror # NoneTypeError
               /\ i \in DOMAIN engine.instances
               /\ engine.heap[engine.instances[i]]._options[key].value
                    = tpl._options[key].value
\* node 1 is a Text node whose entry t has no value: its option holds None;
\* node 2 is a Pair node whose entry k has no value: set_schema ended with
\* the TypeError of set_option
C39_Witness ==
    /\ cstate = "failed"
    /\ cerror = NoneTypeError
    /\ Len(schema.nodes) = 2
    /\ schema.nodes[1].type = "Text"
    /\ ValuelessOptionEntries(schema.nodes[1]) # {}
    /\ schema.nodes[2].type = "Pair"
    /\ ValuelessOptionEntries(schema.nodes[2]) # {}
    /\ DOMAIN engine.instances = {1, 2}
    /\ engine.heap[engine.instances[1]]._options["t"].value = NoneV
    /\ engine._compiled_sequence = << >>

\* C40: a cleanup_old_files call that has found at least one file to delete
\* returns, with every file it found deleted or reported as failed and the
\* lock released; and every thread that waits for the lock in register_file
\* or get_all_files gets it.
C40_CleanupTerminates ==
    \A t \in FileThreads :
        /\ (fpc[t] = "cleanup_loop" /\ floc[t].todo # {}) ~> (fpc[t] = "idle")
        /\ (fpc[t] \in {"register_lock", "get_lock"}) ~> (fpc[t] = "idle")
\* one thread is inside cleanup_old_files, holds the lock and waits for it
\* again in delete_file; the other thread waits for the lock in register_file
C40_Witness ==
    \E t, u \in FileThreads :
        /\ fpc[t] = "delete_lock"
        /\ floc[t].in_cleanup
        /\ file_lock = t
        /\ floc[t].arg \in Registered
        /\ files[floc[t].arg] = "old"
        /\ fpc[u] = "register_lock"

====
